---- MODULE Spec2Model ----
(***************************************************************************)
(* blugnu/restapi: the response pipeline of HandlerFunc.                   *)
(*                                                                         *)
(* One inbound request is followed from content negotiation (newRequest),  *)
(* through the endpoint function (which builds a value with the package's  *)
(* factories and With... methods, returns it, or panics), the type switch  *)
(* of Request.makeResponse, the three response builders, and the steps of  *)
(* Response.write against a net/http ResponseWriter.                       *)
(*                                                                         *)
(* Go values are modelled as records with a "kind" field; an optional      *)
(* (pointer or nil-able) field is a sequence of length 0 or 1; a Go map is *)
(* a function whose DOMAIN is its key set; header keys are sequences of    *)
(* one-character strings so that canonicalisation is computed.             *)
(***************************************************************************)
EXTENDS Integers, Sequences, FiniteSets, TLC

VARIABLES
    pc,          \* position of the handler: start, endpoint, respond, write, status, body, recover, done, crashed
    rq,          \* the inbound *http.Request: [accept, path, query]
    apirq,       \* the negotiated *Request (length 0 before negotiation)
    val,         \* the value the endpoint is building / has returned (length 0 = none yet)
    ops,         \* the With... calls the endpoint has chained on val, in order
    response,    \* the Response being written (length 0 = none)
    rw,          \* the http.ResponseWriter: [header, status, info, body, sent]
    wire,        \* calls made on the ResponseWriter, in order
    logged,      \* calls of LogError, in order
    marshalled,  \* calls of Request.MarshalContent, in order
    called,      \* TRUE once the endpoint function has been invoked
    deferred,    \* TRUE while HandlerFunc's deferred recover() is installed
    panicv,      \* the panic in flight or recovered (length 0 = none)
    panicAt,     \* where the first panic was raised: "", "endpoint", "respond" or "write"
    recovering,  \* TRUE once the deferred function has started handling a panic
    writeFails,  \* TRUE once responseWriterWrite has returned a transport error
    made,        \* the constructor call the endpoint made to obtain val: [fn, args] (length 0 = none)
    projection,  \* the function the ProjectError variable holds: "default" or "custom"
    shared,      \* an *Error value that two handlers both return (length 0 = none)
    handlers     \* the two concurrent invocations returning it: [pc, rq, projected] each

vars == <<pc, rq, apirq, val, ops, response, rw, wire, logged, marshalled,
          called, deferred, panicv, panicAt, recovering, writeFails, made,
          projection, shared, handlers>>

\* the state of two concurrent invocations sharing an Error
conc == <<shared, handlers>>

----------------------------------------------------------------------------
(* Bounds *)

\* the largest number of With... calls an endpoint chains on one value
MaxOps == 2

----------------------------------------------------------------------------
(* Go helpers *)

coalesce(a, b) == IF a # 0 THEN a ELSE b

MapPut(m, k, v) == [x \in (DOMAIN m) \cup {k} |-> IF x = k THEN v ELSE m[x]]

EmptyMap == [x \in {} |-> 0]

Perms(S) == {s \in [1..Cardinality(S) -> S] :
                \A i, j \in 1..Cardinality(S) : i # j => s[i] # s[j]}

\* net/http status texts used by the package (http.StatusText is "" for an unknown code)
StatusText(code) ==
    CASE code = 200 -> "OK"
      [] code = 201 -> "Created"
      [] code = 202 -> "Accepted"
      [] code = 204 -> "No Content"
      [] code = 400 -> "Bad Request"
      [] code = 401 -> "Unauthorized"
      [] code = 403 -> "Forbidden"
      [] code = 404 -> "Not Found"
      [] code = 406 -> "Not Acceptable"
      [] code = 500 -> "Internal Server Error"
      [] code = 501 -> "Not Implemented"
      [] OTHER -> ""

\* the sentinel errors of errors.go, by their texts
ErrInvalidAcceptHeader == "no formatter for content type"
ErrInvalidArgument == "invalid argument"
ErrInvalidOperation == "invalid operation"
ErrInvalidStatusCode == "invalid statuscode"
ErrMarshalResultFailed == "error marshalling response"

\* an error value: its text and the errors that errors.Is finds in its chain
NewErr(text) == [text |-> text, chain |-> {text}]

\* fmt.Errorf("%w: ...", sentinel): wraps the sentinel
WrapErr(sentinel, text) == [text |-> sentinel \o ": " \o text, chain |-> {sentinel}]

\* fmt.Errorf("%w: %w", a, b): wraps both
WrapErr2(a, b) == [text |-> a.text \o ": " \o b.text, chain |-> a.chain \cup b.chain]

\* fmt.Errorf("prefix%v", v): a new error that wraps nothing
Errorf(prefix, text) == NewErr(prefix \o text)

----------------------------------------------------------------------------
(* Header keys *)

LowerOf == [c \in {"C", "O", "N", "T", "E", "Y", "P", "X"} |->
              CASE c = "C" -> "c" [] c = "O" -> "o" [] c = "N" -> "n"
                [] c = "T" -> "t" [] c = "E" -> "e" [] c = "Y" -> "y"
                [] c = "P" -> "p" [] c = "X" -> "x"]

Lower(c) == IF c \in DOMAIN LowerOf THEN LowerOf[c] ELSE c

Upper(c) == IF \E u \in DOMAIN LowerOf : LowerOf[u] = c
            THEN CHOOSE u \in DOMAIN LowerOf : LowerOf[u] = c
            ELSE c

\* http.CanonicalHeaderKey: first letter and every letter after a hyphen
\* upper case, every other letter lower case
CanonicalHeaderKey(k) ==
    [i \in 1..Len(k) |-> IF i = 1 \/ k[i-1] = "-" THEN Upper(k[i]) ELSE Lower(k[i])]

KeyContentType == <<"C", "o", "n", "t", "e", "n", "t", "-", "T", "y", "p", "e">>
KeyXCustom == <<"X", "-", "C">>
KeyXCustomLower == <<"x", "-", "c">>

\* header values are any: an int or a string
IntVal(i) == [t |-> "int", i |-> i, s |-> ""]
StrVal(s) == [t |-> "str", i |-> 0, s |-> s]

\* fmt.Sprintf("%v", v)
Sprint(v) == IF v.t = "int" THEN ToString(v.i) ELSE v.s

\* headers.set storing the key as it was given
set_verbatim(h, k, v) == MapPut(h, k, v)

\* headers.set
set(h, k, v) == MapPut(h, CanonicalHeaderKey(k), v)

\* headers.setAll: the keys of the argument in the order the map iteration yields them
RECURSIVE setAll(_, _, _)
setAll(h, headers, order) ==
    IF Len(order) = 0 THEN h
    ELSE setAll(MapPut(h, CanonicalHeaderKey(Head(order)), headers[Head(order)]),
                headers, Tail(order))

\* headers.setNonCanonical
setNonCanonical(h, k, v) == MapPut(h, k, v)

----------------------------------------------------------------------------
(* Go values handed to a marshal function *)

\* values of type any held in property bags and maps
ChanVal == [t |-> "chan", i |-> 0, s |-> ""]

\* a value of some application type; its shape decides which encoders accept it
Other(shape) == [kind |-> "other", shape |-> shape]

\* a []byte
Bytes(data) == [kind |-> "bytes", data |-> data]

\* encoding/json rejects channels (json: unsupported type), wherever they occur
JSONFails(v) ==
    CASE v.kind = "other" -> v.shape = "chan"
      [] v.kind = "errorResponse" -> \E k \in DOMAIN v.Additional : v.Additional[k].t = "chan"
      [] v.kind = "map" -> \E k \in DOMAIN v.entries : v.entries[k].t = "chan"
      [] OTHER -> FALSE

\* encoding/xml rejects maps and channels; errorProps.MarshalXML renders each
\* value with %v and fails only on a key that is no element name
XMLFails(v) ==
    CASE v.kind = "other" -> v.shape \in {"map", "chan"}
      [] v.kind = "errorResponse" -> \E k \in DOMAIN v.Additional : k = ""
      [] v.kind = "map" -> TRUE
      [] OTHER -> FALSE

IsJSON(fn) == fn \in {"json.Marshal", "json.MarshalIndent"}

MarshalErrText(fn, v) ==
    IF IsJSON(fn) THEN "json: unsupported type"
    ELSE IF v.kind = "errorResponse" THEN "xml: start tag with no name"
    ELSE "xml: unsupported type"

NilContent == [kind |-> "nil"]

\* the pair ([]byte, error) a marshal function returns
CallMarshal(fn, v) ==
    IF (IF IsJSON(fn) THEN JSONFails(v) ELSE XMLFails(v))
    THEN [ok |-> FALSE, content |-> NilContent, err |-> NewErr(MarshalErrText(fn, v))]
    ELSE [ok |-> TRUE, content |-> [kind |-> "marshalled", by |-> fn, of |-> v],
          err |-> NewErr("")]

\* the registry: content type -> marshal function
marshal == [ct \in {"application/json", "application/xml", "text/json", "text/xml"} |->
              CASE ct = "application/json" -> "json.Marshal"
                [] ct = "application/xml" -> "xml.Marshal"
                [] ct = "text/json" -> "json.MarshalIndent"
                [] ct = "text/xml" -> "xml.MarshalIndent"]

\* newRequest falling back to the default type for an Accept value it does not know
newRequest_defaulting(r) ==
    LET acc == IF r.accept \in DOMAIN marshal THEN r.accept ELSE "application/json"
    IN  [ok |-> TRUE,
         request |-> <<[Request |-> r, Accept |-> acc, MarshalContent |-> marshal[acc]]>>,
         err |-> NewErr("")]

\* newRequest ignoring the parameters of the Accept value
newRequest_params(r) ==
    LET bare == IF r.accept = "application/json;q=0.9" THEN "application/json" ELSE r.accept
        acc == IF bare = "" \/ bare = "*/*" THEN "application/json" ELSE bare
    IN  IF acc \in DOMAIN marshal
        THEN [ok |-> TRUE,
              request |-> <<[Request |-> r, Accept |-> acc, MarshalContent |-> marshal[acc]]>>,
              err |-> NewErr("")]
        ELSE [ok |-> FALSE, request |-> <<>>, err |-> NewErr(ErrInvalidAcceptHeader)]

\* newRequest: (*Request, error); a failure returns no Request
newRequest(r) ==
    LET acc == IF r.accept = "" \/ r.accept = "*/*" THEN "application/json" ELSE r.accept
    IN  IF acc \in DOMAIN marshal
        THEN [ok |-> TRUE,
              request |-> <<[Request |-> r, Accept |-> acc, MarshalContent |-> marshal[acc]]>>,
              err |-> NewErr("")]
        ELSE [ok |-> FALSE, request |-> <<>>, err |-> NewErr(ErrInvalidAcceptHeader)]

----------------------------------------------------------------------------
(* The outcome of building a response: either a panic or a Response,       *)
(* with the LogError and MarshalContent calls made on the way.             *)

Response(statusCode, contentType, content, headers) ==
    [StatusCode |-> statusCode, ContentType |-> contentType,
     Content |-> content, headers |-> headers]

InternalError(err, message, help) == [Err |-> err, Message |-> message, Help |-> help]

Built(resp, logs, calls) ==
    [panicked |-> FALSE, perr |-> NewErr(""), resp |-> <<resp>>, logs |-> logs, calls |-> calls]

Panicked(err, logs, calls) ==
    [panicked |-> TRUE, perr |-> err, resp |-> <<>>, logs |-> logs, calls |-> calls]

----------------------------------------------------------------------------
(* Error *)

\* nowUTC(); the zero time.Time is 0
nowUTC == 1

ArgErr(e) == [t |-> "error", e |-> e, i |-> 0, s |-> "", r |-> <<>>]
ArgInt(i) == [t |-> "int", e |-> NewErr(""), i |-> i, s |-> "", r |-> <<>>]
ArgStr(s) == [t |-> "string", e |-> NewErr(""), i |-> 0, s |-> s, r |-> <<>>]
ArgReq(r) == [t |-> "request", e |-> NewErr(""), i |-> 0, s |-> "", r |-> <<r>>]
ArgOther == [t |-> "other", e |-> NewErr(""), i |-> 0, s |-> "", r |-> <<>>]

RECURSIVE JoinStr(_, _)
JoinStr(strs, sep) ==
    IF Len(strs) = 0 THEN ""
    ELSE IF Len(strs) = 1 THEN strs[1]
    ELSE strs[1] \o sep \o JoinStr(Tail(strs), sep)

\* errors.Join: texts joined by newlines, every error kept in the chain
RECURSIVE JoinErrs(_)
JoinErrs(errs) ==
    IF Len(errs) = 1 THEN errs[1]
    ELSE LET rest == JoinErrs(Tail(errs))
         IN  [text |-> errs[1].text \o "\n" \o rest.text,
              chain |-> errs[1].chain \cup rest.chain]

InvalidErrorStatus(code) ==
    WrapErr(ErrInvalidStatusCode, ToString(code) \o ": valid range for error status is 4xx-5xx")

\* NewError taking its status from the first int without checking any
NewError_unchecked(args) ==
    LET errArgs == SelectSeq(args, LAMBDA a : a.t = "error")
        intArgs == SelectSeq(args, LAMBDA a : a.t = "int")
        strArgs == SelectSeq(args, LAMBDA a : a.t = "string")
        reqArgs == SelectSeq(args, LAMBDA a : a.t = "request")
        errs == [i \in 1..Len(errArgs) |-> errArgs[i].e]
        strs == [i \in 1..Len(strArgs) |-> strArgs[i].s]
    IN  [panicked |-> FALSE, perr |-> NewErr(""),
         e |-> [err |-> IF Len(errs) = 0 THEN <<>> ELSE <<JoinErrs(errs)>>,
                help |-> <<>>,
                message |-> IF Len(strs) > 0 THEN <<JoinStr(strs, " ")>> ELSE <<>>,
                request |-> IF Len(reqArgs) > 0 THEN reqArgs[Len(reqArgs)].r ELSE <<>>,
                statusCode |-> coalesce(IF Len(intArgs) > 0 THEN intArgs[1].i ELSE 0, 500),
                timeStamp |-> nowUTC,
                properties |-> EmptyMap,
                headers |-> EmptyMap]]

\* NewError(args...): [panicked, perr, e]
NewError(args) ==
    LET idx == 1..Len(args)
        errArgs == SelectSeq(args, LAMBDA a : a.t = "error")
        intArgs == SelectSeq(args, LAMBDA a : a.t = "int")
        strArgs == SelectSeq(args, LAMBDA a : a.t = "string")
        reqArgs == SelectSeq(args, LAMBDA a : a.t = "request")
        bad == {i \in 1..Len(intArgs) : intArgs[i].i < 400 \/ intArgs[i].i > 599}
        firstBad == CHOOSE i \in bad : \A j \in bad : i <= j
        sc == IF Len(intArgs) > 0 THEN intArgs[1].i ELSE 0
        errs == [i \in 1..Len(errArgs) |-> errArgs[i].e]
        strs == [i \in 1..Len(strArgs) |-> strArgs[i].s]
        e == [err |-> IF Len(errs) = 0 THEN <<>> ELSE <<JoinErrs(errs)>>,
              help |-> <<>>,
              message |-> IF Len(strs) > 0 THEN <<JoinStr(strs, " ")>> ELSE <<>>,
              request |-> IF Len(reqArgs) > 0 THEN reqArgs[Len(reqArgs)].r ELSE <<>>,
              statusCode |-> coalesce(sc, 500),
              timeStamp |-> nowUTC,
              properties |-> EmptyMap,
              headers |-> EmptyMap]
    IN  IF bad # {}
        THEN [panicked |-> TRUE, perr |-> InvalidErrorStatus(intArgs[firstBad].i), e |-> e]
        ELSE [panicked |-> FALSE, perr |-> NewErr(""), e |-> e]

BadRequest(args) == NewError(<<ArgInt(400)>> \o args)
Unauthorized(args) == NewError(<<ArgInt(401)>> \o args)
Forbidden(args) == NewError(<<ArgInt(403)>> \o args)
NotFound(args) == NewError(<<ArgInt(404)>> \o args)
InternalServerError(args) == NewError(<<ArgInt(500)>> \o args)

\* the zero value &Error{}, which the exported type admits
ZeroError ==
    [err |-> <<>>, help |-> <<>>, message |-> <<>>, request |-> <<>>, statusCode |-> 0,
     timeStamp |-> 0, properties |-> EmptyMap, headers |-> EmptyMap]

\* ifNotNil on a *string
ifNotNil(p) == IF Len(p) > 0 THEN p[1] ELSE ""

\* (*Error).info
info(e) ==
    [StatusCode |-> e.statusCode, Err |-> e.err, Message |-> ifNotNil(e.message),
     Help |-> ifNotNil(e.help), Request |-> e.request, Properties |-> e.properties,
     TimeStamp |-> e.timeStamp]

\* Error.Error(): "<code> <status>[: error][: message]"
ErrorString(e) ==
    ToString(e.statusCode) \o " " \o StatusText(e.statusCode)
        \o (IF Len(e.err) > 0 THEN ": " \o e.err[1].text ELSE "")
        \o (IF Len(e.message) > 0 THEN ": " \o e.message[1] ELSE "")

\* a ProjectError installed by the application in place of the default: it
\* returns a map[string]any, which encoding/json accepts and encoding/xml rejects
CustomProjection(err) == Other("map")

\* the ProjectError variable: the default implementation unless replaced
ProjectError(err) ==
    IF projection = "custom" THEN CustomProjection(err)
    ELSE
    [kind |-> "errorResponse",
     Status |-> err.StatusCode,
     Error |-> StatusText(err.StatusCode),
     Message |-> CASE err.Message = "" /\ Len(err.Err) > 0 -> err.Err[1].text
                   [] err.Message # "" /\ Len(err.Err) > 0 -> err.Err[1].text \o ": " \o err.Message
                   [] OTHER -> err.Message,
     Path |-> err.Request[1].path,
     Query |-> err.Request[1].query,
     Timestamp |-> err.TimeStamp,
     Help |-> err.Help,
     Additional |-> err.Properties]

\* the Error as makeErrorResponse leaves it
Resolved(e, r) ==
    [e EXCEPT !.statusCode = coalesce(e.statusCode, 500),
              !.timeStamp = coalesce(e.timeStamp, nowUTC),
              !.request = <<r.Request>>]

FallbackContent(err, e) ==
    [kind |-> "text",
     lines |-> <<"An error occurred marshalling an error response", "",
                 "The marshalling error was:", "   " \o err.text, "",
                 "The original error was:", "   " \o ErrorString(e)>>]

\* makeErrorResponse keeping the Error's own status in the plain-text fallback
makeErrorResponse_ownStatus(e0, r) ==
    IF e0.statusCode # 0 /\ (e0.statusCode < 400 \/ e0.statusCode > 599)
    THEN Panicked(InvalidErrorStatus(e0.statusCode), <<>>, <<>>)
    ELSE LET e == Resolved(e0, r)
             p == ProjectError(info(e))
             m == CallMarshal(r.MarshalContent, p)
         IN  IF ~m.ok
             THEN Built(Response(e.statusCode, "plain/text", FallbackContent(m.err, e), EmptyMap),
                        <<InternalError(m.err, "error marshalling error response",
                                        "the original error was: " \o ErrorString(e))>>,
                        <<p>>)
             ELSE Built(Response(e.statusCode, r.Accept, m.content, EmptyMap), <<>>, <<p>>)

\* makeErrorResponse trying the marshal function once more before it falls back
makeErrorResponse_retry(e0, r) ==
    IF e0.statusCode # 0 /\ (e0.statusCode < 400 \/ e0.statusCode > 599)
    THEN Panicked(InvalidErrorStatus(e0.statusCode), <<>>, <<>>)
    ELSE LET e == Resolved(e0, r)
             p == ProjectError(info(e))
             m == CallMarshal(r.MarshalContent, p)
         IN  IF ~m.ok
             THEN Built(Response(500, "plain/text", FallbackContent(m.err, e), EmptyMap),
                        <<InternalError(m.err, "error marshalling error response",
                                        "the original error was: " \o ErrorString(e))>>,
                        <<p, p>>)
             ELSE Built(Response(e.statusCode, r.Accept, m.content, EmptyMap), <<>>, <<p>>)

makeErrorResponse(e0, r) ==
    IF e0.statusCode # 0 /\ (e0.statusCode < 400 \/ e0.statusCode > 599)
    THEN Panicked(InvalidErrorStatus(e0.statusCode), <<>>, <<>>)
    ELSE LET e == Resolved(e0, r)
             p == ProjectError(info(e))
             m == CallMarshal(r.MarshalContent, p)
         IN  IF ~m.ok
             THEN Built(Response(500, "plain/text", FallbackContent(m.err, e), EmptyMap),
                        <<InternalError(m.err, "error marshalling error response",
                                        "the original error was: " \o ErrorString(e))>>,
                        <<p>>)
             ELSE Built(Response(e.statusCode, r.Accept, m.content, EmptyMap), <<>>, <<p>>)

----------------------------------------------------------------------------
(* Result *)

\* &Result{statusCode: code}: no content, no content type, a nil header map
NewResult(code) == [content |-> <<>>, contentType |-> <<>>, headers |-> <<>>, statusCode |-> code]

Accepted == NewResult(202)
Created == NewResult(201)
NoContent == NewResult(204)
NotImplemented == NewResult(501)
OK == NewResult(200)

\* Status accepting every code from 1 up
Status_from1(statusCode) ==
    IF statusCode < 1 \/ statusCode > 599
    THEN [panicked |-> TRUE,
          perr |-> WrapErr(ErrInvalidStatusCode, ToString(statusCode) \o ": valid range is 1xx-5xx"),
          r |-> NewResult(0)]
    ELSE [panicked |-> FALSE, perr |-> NewErr(""), r |-> NewResult(statusCode)]

\* Status(statusCode): [panicked, perr, r]
Status(statusCode) ==
    IF statusCode < 100 \/ statusCode > 599
    THEN [panicked |-> TRUE,
          perr |-> WrapErr(ErrInvalidStatusCode, ToString(statusCode) \o ": valid range is 1xx-5xx"),
          r |-> NewResult(0)]
    ELSE [panicked |-> FALSE, perr |-> NewErr(""), r |-> NewResult(statusCode)]

\* the Go runtime panic of a write to a nil map
NilMapPanic == NewErr("assignment to entry in nil map")

\* (*Result).WithContent: bytes.Clone copies the bytes
ResultWithContent(r, contentType, content) ==
    [r EXCEPT !.content = <<Bytes(content)>>, !.contentType = <<contentType>>]

\* WithValue leaving an earlier explicit content type in place
ResultWithValue_keepType(r, value) == [r EXCEPT !.content = <<value>>]

\* (*Result).WithValue
ResultWithValue(r, value) == [r EXCEPT !.content = <<value>>, !.contentType = <<>>]

\* (*Result).WithHeader: [panicked, perr, r]
ResultWithHeader(r, k, v) ==
    IF Len(r.headers) = 0
    THEN [panicked |-> TRUE, perr |-> NilMapPanic, r |-> r]
    ELSE [panicked |-> FALSE, perr |-> NewErr(""),
          r |-> [r EXCEPT !.headers = <<MapPut(r.headers[1], CanonicalHeaderKey(k), v)>>]]

\* (*Result).WithHeaders: the loop body writes to the nil map, if it runs at all
ResultWithHeaders(r, headers, order) ==
    IF Len(order) = 0
    THEN [panicked |-> FALSE, perr |-> NewErr(""), r |-> r]
    ELSE IF Len(r.headers) = 0
    THEN [panicked |-> TRUE, perr |-> NilMapPanic, r |-> r]
    ELSE [panicked |-> FALSE, perr |-> NewErr(""),
          r |-> [r EXCEPT !.headers = <<setAll(r.headers[1], headers, order)>>]]

\* (*Result).WithNonCanonicalHeader: [panicked, perr, r]
ResultWithNonCanonicalHeader(r, k, v) ==
    IF Len(r.headers) = 0
    THEN [panicked |-> TRUE, perr |-> NilMapPanic, r |-> r]
    ELSE [panicked |-> FALSE, perr |-> NewErr(""),
          r |-> [r EXCEPT !.headers = <<MapPut(r.headers[1], k, v)>>]]

\* the outcome o, after the log entries and marshal calls that preceded it
After(logs, calls, o) == [o EXCEPT !.logs = logs \o o.logs, !.calls = calls \o o.calls]

\* makeResultResponse answering a marshal failure with the bare marshal error
makeResultResponse_unwrapped(result, r) ==
    LET statusCode == coalesce(result.statusCode, 200)
        headers == IF Len(result.headers) = 0 THEN EmptyMap ELSE result.headers[1]
    IN  IF Len(result.contentType) > 0 /\ Len(result.content) > 0
        THEN Built(Response(statusCode, result.contentType[1], result.content[1], headers),
                   <<>>, <<>>)
        ELSE IF Len(result.content) = 0
        THEN Built(Response(statusCode, "", NilContent, headers), <<>>, <<>>)
        ELSE LET m == CallMarshal(r.MarshalContent, result.content[1])
             IN  IF ~m.ok
                 THEN After(<<InternalError(m.err, "error marshalling Result response", "Result")>>,
                            <<result.content[1]>>,
                            makeErrorResponse(InternalServerError(<<ArgErr(m.err)>>).e, r))
                 ELSE Built(Response(statusCode, r.Accept, m.content, headers),
                            <<>>, <<result.content[1]>>)

\* makeResultResponse labelling explicit content with the negotiated type
makeResultResponse_negotiated(result, r) ==
    LET statusCode == coalesce(result.statusCode, 200)
        headers == IF Len(result.headers) = 0 THEN EmptyMap ELSE result.headers[1]
    IN  IF Len(result.contentType) > 0 /\ Len(result.content) > 0
        THEN Built(Response(statusCode, r.Accept, result.content[1], headers), <<>>, <<>>)
        ELSE IF Len(result.content) = 0
        THEN Built(Response(statusCode, "", NilContent, headers), <<>>, <<>>)
        ELSE LET m == CallMarshal(r.MarshalContent, result.content[1])
             IN  IF ~m.ok
                 THEN LET e == InternalServerError(
                                   <<ArgErr(WrapErr2(NewErr(ErrMarshalResultFailed), m.err))>>).e
                      IN  After(<<InternalError(m.err, "error marshalling Result response", "Result")>>,
                                <<result.content[1]>>,
                                makeErrorResponse(e, r))
                 ELSE Built(Response(statusCode, r.Accept, m.content, headers),
                            <<>>, <<result.content[1]>>)

makeResultResponse(result, r) ==
    LET statusCode == coalesce(result.statusCode, 200)
        headers == IF Len(result.headers) = 0 THEN EmptyMap ELSE result.headers[1]
    IN  IF Len(result.contentType) > 0 /\ Len(result.content) > 0
        THEN IF result.content[1].kind = "bytes"
             THEN Built(Response(statusCode, result.contentType[1], result.content[1], headers),
                        <<>>, <<>>)
             ELSE Panicked(NewErr("interface conversion: interface {} is not []uint8"), <<>>, <<>>)
        ELSE IF Len(result.content) = 0
        THEN Built(Response(statusCode, "", NilContent, headers), <<>>, <<>>)
        ELSE LET m == CallMarshal(r.MarshalContent, result.content[1])
             IN  IF ~m.ok
                 THEN LET e == InternalServerError(
                                   <<ArgErr(WrapErr2(NewErr(ErrMarshalResultFailed), m.err))>>).e
                      IN  After(<<InternalError(m.err, "error marshalling Result response", "Result")>>,
                                <<result.content[1]>>,
                                makeErrorResponse(e, r))
                 ELSE Built(Response(statusCode, r.Accept, m.content, headers),
                            <<>>, <<result.content[1]>>)

----------------------------------------------------------------------------
(* Problem *)

URL(scheme, host) == [scheme |-> scheme, host |-> host]

\* (*url.URL).String
URLString(u) == u.scheme \o "://" \o u.host

ZeroProblem ==
    [Type |-> <<>>, Status |-> 0, Instance |-> <<>>, Detail |-> "", Title |-> "",
     props |-> EmptyMap]

PArgInt(i) == [t |-> "int", i |-> i, s |-> "", u |-> <<>>, e |-> NewErr(""), m |-> EmptyMap]
PArgStr(s) == [t |-> "string", i |-> 0, s |-> s, u |-> <<>>, e |-> NewErr(""), m |-> EmptyMap]
PArgURL(u) == [t |-> "url", i |-> 0, s |-> "", u |-> <<u>>, e |-> NewErr(""), m |-> EmptyMap]
PArgErr(e) == [t |-> "error", i |-> 0, s |-> "", u |-> <<>>, e |-> e, m |-> EmptyMap]
PArgMap(m) == [t |-> "map", i |-> 0, s |-> "", u |-> <<>>, e |-> NewErr(""), m |-> m]
PArgOther == [t |-> "other", i |-> 0, s |-> "", u |-> <<>>, e |-> NewErr(""), m |-> EmptyMap]

\* the maps merged, m2's values winning
MapMerge(m1, m2) ==
    [k \in (DOMAIN m1) \cup (DOMAIN m2) |-> IF k \in DOMAIN m2 THEN m2[k] ELSE m1[k]]

\* one iteration of NewProblem's loop over its arguments
ProblemArg(p, arg) ==
    CASE arg.t = "int" -> [p EXCEPT !.Status = arg.i]
      [] arg.t = "url" -> [p EXCEPT !.Type = arg.u]
      [] arg.t = "string" -> [p EXCEPT !.Detail = arg.s]
      [] arg.t = "error" -> [p EXCEPT !.Status = coalesce(p.Status, 500), !.Detail = arg.e.text]
      [] arg.t = "map" -> [p EXCEPT !.props = MapMerge(p.props, arg.m)]
      [] OTHER -> p

RECURSIVE ProblemArgs(_, _)
ProblemArgs(p, args) ==
    IF Len(args) = 0 THEN p ELSE ProblemArgs(ProblemArg(p, Head(args)), Tail(args))

\* NewProblem(args...): [panicked, perr, p]
NewProblem(args) ==
    LET p == ProblemArgs(ZeroProblem, args)
        status == coalesce(p.Status, 500)
        detail == IF p.Detail # "" THEN p.Detail ELSE StatusText(status)
    IN  IF \E i \in 1..Len(args) : args[i].t = "other"
        THEN [panicked |-> TRUE, perr |-> NewErr(ErrInvalidArgument), p |-> p]
        ELSE [panicked |-> FALSE, perr |-> NewErr(""),
              p |-> [p EXCEPT !.Status = status, !.Detail = detail]]

ReservedKeys == {"type", "title", "status", "detail", "instance"}

\* (*Problem).WithProperty: [panicked, perr, p]
ProblemWithProperty(p, key, value) ==
    IF key \in ReservedKeys
    THEN [panicked |-> TRUE, perr |-> WrapErr(ErrInvalidArgument, "'" \o key \o "' is a reserved field which must be set using the appropriate Problem method"),
          p |-> p]
    ELSE [panicked |-> FALSE, perr |-> NewErr(""), p |-> [p EXCEPT !.props = MapPut(p.props, key, value)]]

\* a body holding all five fields whether set or not
ProblemBody_full(p) ==
    LET field == [f \in ReservedKeys |->
                    CASE f = "type" -> StrVal(IF Len(p.Type) > 0 THEN URLString(p.Type[1]) ELSE "")
                      [] f = "title" -> StrVal(p.Title)
                      [] f = "status" -> IntVal(p.Status)
                      [] f = "detail" -> StrVal(p.Detail)
                      [] f = "instance" -> StrVal(IF Len(p.Instance) > 0 THEN URLString(p.Instance[1]) ELSE "")]
    IN  [kind |-> "map", entries |-> MapMerge(field, p.props)]

\* the map[string]any that makeProblemResponse fills
ProblemBody(p) ==
    LET fields == {f \in ReservedKeys :
                      \/ f = "type" /\ Len(p.Type) > 0
                      \/ f = "title" /\ p.Title # ""
                      \/ f = "status" /\ p.Status > 0
                      \/ f = "detail" /\ p.Detail # ""
                      \/ f = "instance" /\ Len(p.Instance) > 0}
        field == [f \in fields |->
                    CASE f = "type" -> StrVal(URLString(p.Type[1]))
                      [] f = "title" -> StrVal(p.Title)
                      [] f = "status" -> IntVal(p.Status)
                      [] f = "detail" -> StrVal(p.Detail)
                      [] f = "instance" -> StrVal(URLString(p.Instance[1]))]
    IN  [kind |-> "map", entries |-> MapMerge(field, p.props)]

\* makeProblemResponse marshalling whatever the Problem holds, even nothing
makeProblemResponse_lenient(p, r) ==
    LET body == ProblemBody(p)
        m == CallMarshal(r.MarshalContent, body)
    IN  IF ~m.ok
        THEN After(<<InternalError(m.err, "error marshalling Problem response", "Problem")>>,
                   <<body>>,
                   makeErrorResponse(
                       InternalServerError(<<ArgErr(m.err), ArgReq(r.Request)>>).e, r))
        ELSE Built(Response(coalesce(p.Status, 500), "application/problem+json",
                            m.content, EmptyMap),
                   <<>>, <<body>>)

makeProblemResponse(p, r) ==
    LET body == ProblemBody(p)
    IN  IF DOMAIN body.entries = {}
        THEN Panicked(WrapErr(ErrInvalidOperation, "an uninitialised restapi.Problem was returned"),
                      <<>>, <<>>)
        ELSE LET m == CallMarshal(r.MarshalContent, body)
             IN  IF ~m.ok
                 THEN After(<<InternalError(m.err, "error marshalling Problem response", "Problem")>>,
                            <<body>>,
                            makeErrorResponse(
                                InternalServerError(<<ArgErr(m.err), ArgReq(r.Request)>>).e, r))
                 ELSE Built(Response(coalesce(p.Status, 500), "application/problem+json",
                                     m.content, EmptyMap),
                            <<>>, <<body>>)

----------------------------------------------------------------------------
(* Request.makeResponse *)

Value(kind, v) == [kind |-> kind, v |-> v]

\* the type switch with the error case ahead of the *Error case
TypeSwitch_errorFirst == <<"error", "*Error", "*Result", "*Problem", "[]byte", "int">>

\* the cases of the type switch, in source order
TypeSwitch == <<"*Error", "*Result", "*Problem", "error", "[]byte", "int">>

\* *Error has an Error() method, so it also satisfies the error interface
Implements(v, case) ==
    IF case = "error" THEN v.kind \in {"*Error", "error"} ELSE v.kind = case

\* the case the switch selects: the first that matches, else default
SwitchCase(v) ==
    LET hits == {i \in 1..Len(TypeSwitch) : Implements(v, TypeSwitch[i])}
    IN  IF hits = {} THEN "default"
        ELSE TypeSwitch[CHOOSE i \in hits : \A j \in hits : i <= j]

\* makeResponse reporting every error the endpoint returns to LogError
makeResponse_logged(r, result) ==
    LET case == SwitchCase(result)
    IN  CASE case = "*Error" ->
                 After(<<InternalError(NewErr(ErrorString(result.v)), "handler error", "")>>, <<>>,
                       makeErrorResponse([result.v EXCEPT !.request = <<r.Request>>], r))
          [] case = "*Result" -> makeResultResponse(result.v, r)
          [] case = "*Problem" -> makeProblemResponse(result.v, r)
          [] case = "error" ->
                 LET err == IF result.kind = "*Error"
                            THEN NewErr(ErrorString(result.v)) ELSE result.v
                 IN  After(<<InternalError(err, "handler error", "")>>, <<>>,
                           makeErrorResponse(
                               InternalServerError(<<ArgErr(err), ArgReq(r.Request)>>).e, r))
          [] case = "[]byte" ->
                 IF Len(result.v) = 0
                 THEN Built(Response(204, "", NilContent, EmptyMap), <<>>, <<>>)
                 ELSE Built(Response(200, "application/octet-stream", Bytes(result.v), EmptyMap),
                            <<>>, <<>>)
          [] case = "int" -> Built(Response(result.v, "", NilContent, EmptyMap), <<>>, <<>>)
          [] OTHER -> makeResultResponse(
                          [content |-> IF result.kind = "nil" THEN <<>> ELSE <<result.v>>,
                           contentType |-> <<>>, headers |-> <<>>, statusCode |-> 200], r)

makeResponse(r, result) ==
    LET case == SwitchCase(result)
    IN  CASE case = "*Error" ->
                 makeErrorResponse([result.v EXCEPT !.request = <<r.Request>>], r)
          [] case = "*Result" -> makeResultResponse(result.v, r)
          [] case = "*Problem" -> makeProblemResponse(result.v, r)
          [] case = "error" ->
                 makeErrorResponse(
                     InternalServerError(
                         <<ArgErr(IF result.kind = "*Error"
                                  THEN NewErr(ErrorString(result.v)) ELSE result.v),
                           ArgReq(r.Request)>>).e, r)
          [] case = "[]byte" ->
                 IF Len(result.v) = 0
                 THEN Built(Response(204, "", NilContent, EmptyMap), <<>>, <<>>)
                 ELSE Built(Response(200, "application/octet-stream", Bytes(result.v), EmptyMap),
                            <<>>, <<>>)
          [] case = "int" -> Built(Response(result.v, "", NilContent, EmptyMap), <<>>, <<>>)
          [] OTHER -> makeResultResponse(
                          [content |-> IF result.kind = "nil" THEN <<>> ELSE <<result.v>>,
                           contentType |-> <<>>, headers |-> <<>>, statusCode |-> 200], r)

----------------------------------------------------------------------------
(* Error and Problem builder methods *)

ErrorWithHeader(e, k, v) == [e EXCEPT !.headers = set(e.headers, k, v)]

ErrorWithHeaders(e, headers, order) == [e EXCEPT !.headers = setAll(e.headers, headers, order)]

ErrorWithNonCanonicalHeader(e, k, v) == [e EXCEPT !.headers = setNonCanonical(e.headers, k, v)]

ErrorWithHelp(e, s) == [e EXCEPT !.help = <<s>>]

ErrorWithMessage(e, s) == [e EXCEPT !.message = <<s>>]

ErrorWithProperty(e, key, value) == [e EXCEPT !.properties = MapPut(e.properties, key, value)]

ProblemWithDetail(p, detail) == [p EXCEPT !.Detail = detail]

ProblemWithInstance(p, instance) == [p EXCEPT !.Instance = <<instance>>]

\* (*Problem).WithType(url, title...)
ProblemWithType(p, url, title) == [p EXCEPT !.Type = <<url>>, !.Title = JoinStr(title, " ")]

----------------------------------------------------------------------------
(* net/http: http.Header and http.ResponseWriter *)

NewResponseWriter ==
    [header |-> EmptyMap,   \* rw.Header()
     status |-> 0,          \* the committed status code, 0 before the commit
     info |-> <<>>,         \* 1xx informational responses sent before the commit
     body |-> <<>>,         \* the contents passed to successful Write calls
     sent |-> EmptyMap]     \* the headers as they were at the commit

\* Header.Add: appends to the values under the canonical key
HeaderAdd(h, k, v) ==
    LET ck == CanonicalHeaderKey(k)
    IN  MapPut(h, ck, (IF ck \in DOMAIN h THEN h[ck] ELSE <<>>) \o <<v>>)

\* Header.Set: replaces the values under the canonical key
HeaderSet(h, k, v) == MapPut(h, CanonicalHeaderKey(k), <<v>>)

\* WriteHeader panics on a code outside [100,999]
InvalidWriteHeaderCode(code) == code < 100 \/ code > 999

\* WriteHeader: a 1xx code other than 101 is sent as an informational
\* response; any other code commits status and headers; after the commit a
\* further call changes nothing
WriteHeader(w, code) ==
    IF w.status # 0 THEN w
    ELSE IF code >= 100 /\ code <= 199 /\ code # 101
    THEN [w EXCEPT !.info = Append(w.info, code)]
    ELSE [w EXCEPT !.status = code, !.sent = w.header]

ContentLen(c) ==
    CASE c.kind = "nil" -> 0
      [] c.kind = "bytes" -> Len(c.data)
      [] OTHER -> 1

\* responses that carry no body (http.ErrBodyNotAllowed)
BodyNotAllowed(status) == status = 204 \/ status = 304

\* the error of rw.Write, if any
WriteError(w, c, fails) ==
    LET status == IF w.status = 0 THEN 200 ELSE w.status
    IN  IF fails THEN <<NewErr("write: broken pipe")>>
        ELSE IF BodyNotAllowed(status) /\ ContentLen(c) > 0
        THEN <<NewErr("http: request method or response status code does not allow body")>>
        ELSE <<>>

\* rw.Write: commits status 200 if none is committed yet, then sends the content
Write(w, c, fails) ==
    LET w1 == IF w.status = 0 THEN [w EXCEPT !.status = 200, !.sent = w.header] ELSE w
    IN  IF Len(WriteError(w, c, fails)) > 0 THEN w1
        ELSE [w1 EXCEPT !.body = Append(w1.body, c)]

Call(op, k, v, code, content) == [op |-> op, k |-> k, v |-> v, code |-> code, content |-> content]

CallHeader(op, k, v) == Call(op, k, v, 0, NilContent)
CallWriteHeader(code) == Call("WriteHeader", <<>>, "", code, NilContent)
CallWrite(c) == Call("Write", <<>>, "", 0, c)

----------------------------------------------------------------------------
(* Inputs *)

\* Accept header values: the defaults, the registry, and values outside it
AcceptValues ==
    {"", "*/*", "application/json", "application/xml", "text/json", "text/xml",
     "text/plain", "application/json;q=0.9", "Application/JSON", "application/problem+json"}

InboundRequest(accept) == [accept |-> accept, path |-> "/in", query |-> "a=1"]

\* a request other than the inbound one, which an endpoint may attach to an Error
OtherRequest == [accept |-> "", path |-> "/other", query |-> ""]

\* ints an endpoint returns as bare status codes
IntReturns == {0, 99, 100, 202, 700, 1000}

\* shapes of the application values an endpoint returns or sets
Shapes == {"struct", "map", "chan"}

\* codes passed to Status
StatusArgs == {0, 1, 99, 100, 204, 599, 600}

\* argument lists passed to NewError
ErrorArgs ==
    {<<>>, <<ArgInt(404)>>, <<ArgInt(404), ArgStr("missing")>>,
     <<ArgErr(NewErr("cause")), ArgInt(400), ArgStr("bad"), ArgStr("id")>>,
     <<ArgErr(NewErr("e1")), ArgErr(NewErr("e2"))>>,
     <<ArgInt(399)>>, <<ArgInt(599)>>, <<ArgInt(600)>>, <<ArgInt(404), ArgInt(200)>>, <<ArgInt(404), ArgInt(503)>>,
     <<ArgReq(OtherRequest), ArgInt(403)>>, <<ArgOther>>}

\* calls of the fixed-status Error factories: the function and its arguments
ErrorFactoryCalls ==
    {<<"BadRequest", <<>>>>, <<"Unauthorized", <<ArgStr("who")>>>>,
     <<"Forbidden", <<ArgInt(200)>>>>, <<"NotFound", <<ArgErr(NewErr("cause"))>>>>,
     <<"InternalServerError", <<ArgInt(404)>>>>}

ExampleURL == URL("http", "example.com")

\* argument lists passed to NewProblem
ProblemArgs0 ==
    {<<>>, <<PArgInt(404)>>, <<PArgInt(404), PArgStr("not found"), PArgInt(400)>>,
     <<PArgErr(NewErr("cause"))>>, <<PArgInt(400), PArgErr(NewErr("cause"))>>,
     <<PArgStr("not found"), PArgErr(NewErr("cause"))>>,
     <<PArgURL(URL("https", "example.org")), PArgURL(ExampleURL)>>,
     <<PArgMap([k \in {"k", "j"} |-> IntVal(1)]), PArgMap([k \in {"k"} |-> IntVal(2)])>>,
     <<PArgURL(ExampleURL), PArgMap([k \in {"k"} |-> IntVal(1)])>>,
     <<PArgMap([k \in {"status"} |-> IntVal(200)])>>,
     <<PArgOther>>}

\* Problem literals: the exported fields can be set directly
ProblemLiterals ==
    {ZeroProblem, [ZeroProblem EXCEPT !.Status = 404], [ZeroProblem EXCEPT !.Title = "t"]}

\* properties an endpoint sets: an ordinary one, one that encoding/json
\* rejects, and one whose key is no XML element name
Props == {<<"k", StrVal("v")>>, <<"k", ChanVal>>, <<"", StrVal("v")>>}
HeaderKeys == {KeyXCustom, KeyXCustomLower, KeyContentType}
HeaderValues == {IntVal(42), StrVal("v")}

\* maps passed to WithHeaders: none, one key, and two keys that differ only in case
HeaderArgs ==
    {EmptyMap,
     [k \in {KeyXCustomLower} |-> StrVal("v")],
     [k \in {KeyXCustomLower, KeyXCustom} |-> IF k = KeyXCustom THEN StrVal("v") ELSE IntVal(42)]}
ByteSeqs == {<<>>, <<1, 2>>}
ContentTypes == {"text/csv", ""}

----------------------------------------------------------------------------
(* Panics *)

\* HandlerFunc without its deferred recover: a panic always reaches the caller
RaiseUncontained(err, at) ==
    /\ panicv' = <<err>>
    /\ panicAt' = IF panicAt = "" THEN at ELSE panicAt
    /\ pc' = "crashed"

\* a panic unwinds to HandlerFunc's deferred function if it is installed and
\* not already running; otherwise it reaches the caller
Raise(err, at) ==
    /\ panicv' = <<err>>
    /\ panicAt' = IF panicAt = "" THEN at ELSE panicAt
    /\ pc' = IF deferred /\ ~recovering THEN "recover" ELSE "crashed"

NoPanic == UNCHANGED <<panicv, panicAt>>

----------------------------------------------------------------------------
(* HandlerFunc *)

Literal406 ==
    [kind |-> "literal",
     s |-> "[\"application/json\",\"application/xml\",\"text/json\",\"test/xml\",\"*/*\",none]"]

\* newRequest succeeds: the deferred recover is installed and the endpoint called
Negotiate ==
    /\ pc = "start"
    /\ newRequest(rq).ok
    /\ apirq' = newRequest(rq).request
    /\ deferred' = TRUE
    /\ called' = TRUE
    /\ pc' = "endpoint"
    /\ UNCHANGED <<conc, projection, made, rq, val, ops, response, rw, wire, logged, marshalled, panicv, panicAt,
                   recovering, writeFails>>

\* newRequest fails: the fixed response is written and the handler returns
NegotiateFailed ==
    /\ pc = "start"
    /\ ~newRequest(rq).ok
    /\ \E fails \in BOOLEAN :
       LET err == newRequest(rq).err
           invalid == ErrInvalidAcceptHeader \in err.chain
           statusCode == IF invalid THEN 406 ELSE 500
           content == IF invalid THEN Literal406
                      ELSE [kind |-> "marshalled", by |-> "json.Marshal", of |-> err.text]
           w1 == [rw EXCEPT !.header = HeaderSet(rw.header, KeyContentType, "application/json")]
           w2 == WriteHeader(w1, statusCode)
           rwerr == WriteError(w2, content, fails)
       IN  /\ rw' = Write(w2, content, fails)
           /\ writeFails' = fails
           /\ wire' = wire \o <<CallHeader("Header.Set", KeyContentType, "application/json"),
                                CallWriteHeader(statusCode), CallWrite(content)>>
           /\ logged' = logged \o <<InternalError(err, "error initialising request", "")>>
                  \o (IF Len(rwerr) > 0
                      THEN <<InternalError(rwerr[1], "error writing request error response",
                                           "(request error: " \o err.text
                                               \o "): rw.Write() error: " \o rwerr[1].text)>>
                      ELSE <<>>)
    /\ pc' = "done"
    /\ UNCHANGED <<conc, projection, made, rq, apirq, val, ops, response, marshalled, called, deferred, panicv,
                   panicAt, recovering>>

\* the constructor call behind a value: the function and its arguments
Constructed(fn, args) == <<[fn |-> fn, args |-> args]>>

\* the endpoint obtains a value (or the call that makes it panics)
Make(call, c) ==
    /\ ops' = <<>>
    /\ made' = call
    /\ IF c.panicked
       THEN Raise(c.perr, "endpoint") /\ val' = <<>>
       ELSE val' = <<c.v>> /\ pc' = pc /\ NoPanic

Made(kind, v) == [panicked |-> FALSE, perr |-> NewErr(""), v |-> Value(kind, v)]

\* the fixed-status Error factories, by name
ErrorFactory(fn, args) ==
    CASE fn = "BadRequest" -> BadRequest(args)
      [] fn = "Unauthorized" -> Unauthorized(args)
      [] fn = "Forbidden" -> Forbidden(args)
      [] fn = "NotFound" -> NotFound(args)
      [] fn = "InternalServerError" -> InternalServerError(args)

\* the fixed-status Result factories, by name
ResultFactory(fn) ==
    CASE fn = "Accepted" -> Accepted
      [] fn = "Created" -> Created
      [] fn = "NoContent" -> NoContent
      [] fn = "NotImplemented" -> NotImplemented
      [] fn = "OK" -> OK

EndpointNew ==
    /\ pc = "endpoint"
    /\ val = <<>>
    /\ \/ Make(Constructed("nil", <<>>), Made("nil", 0))
       \/ Make(Constructed("error", <<>>), Made("error", NewErr("failed")))
       \/ \E b \in ByteSeqs : Make(Constructed("[]byte", <<>>), Made("[]byte", b))
       \/ \E n \in IntReturns : Make(Constructed("int", <<>>), Made("int", n))
       \/ \E sh \in Shapes : Make(Constructed("value", <<>>), Made("other", Other(sh)))
       \/ \E fn \in {"Accepted", "Created", "NoContent", "NotImplemented", "OK"} :
              Make(Constructed(fn, <<>>), Made("*Result", ResultFactory(fn)))
       \/ \E n \in StatusArgs :
              LET c == Status(n)
              IN  Make(Constructed("Status", <<n>>),
                       [panicked |-> c.panicked, perr |-> c.perr, v |-> Value("*Result", c.r)])
       \/ \E args \in ErrorArgs :
              LET c == NewError(args)
              IN  Make(Constructed("NewError", args),
                       [panicked |-> c.panicked, perr |-> c.perr, v |-> Value("*Error", c.e)])
       \/ \E call \in ErrorFactoryCalls :
              LET c == ErrorFactory(call[1], call[2])
              IN  Make(Constructed(call[1], call[2]),
                       [panicked |-> c.panicked, perr |-> c.perr, v |-> Value("*Error", c.e)])
       \/ Make(Constructed("&Error{}", <<>>), Made("*Error", ZeroError))
       \/ \E args \in ProblemArgs0 :
              LET c == NewProblem(args)
              IN  Make(Constructed("NewProblem", args),
                       [panicked |-> c.panicked, perr |-> c.perr, v |-> Value("*Problem", c.p)])
       \/ \E p \in ProblemLiterals : Make(Constructed("&Problem{}", <<>>), Made("*Problem", p))
    /\ UNCHANGED <<conc, projection, rq, apirq, response, rw, wire, logged, marshalled, called, deferred,
                   recovering, writeFails>>

\* a With... call as the endpoint made it
Op(name) == [op |-> name, ct |-> "", data |-> <<>>]
OpContent(ct, data) == [op |-> "WithContent", ct |-> ct, data |-> data]
OpValue(value) == [op |-> "WithValue", ct |-> "", data |-> <<>>, value |-> value]
OpHeader(name, k, v) == [op |-> name, ct |-> "", data |-> <<>>, k |-> k, v |-> v]
OpHeaders(headers) == [op |-> "WithHeaders", ct |-> "", data |-> <<>>, headers |-> headers]

\* the endpoint calls a With... method on the value it holds
With(kind, op, c) ==
    IF c.panicked
    THEN Raise(c.perr, "endpoint") /\ val' = <<>> /\ ops' = <<>>
    ELSE val' = <<Value(kind, c.v)>> /\ ops' = Append(ops, op) /\ pc' = pc /\ NoPanic

Done(v) == [panicked |-> FALSE, perr |-> NewErr(""), v |-> v]

EndpointWith ==
    /\ pc = "endpoint"
    /\ val # <<>>
    /\ Len(ops) < MaxOps
    /\ LET v == val[1].v
       IN  \/ /\ val[1].kind = "*Result"
              /\ \/ \E ct \in ContentTypes, b \in ByteSeqs :
                        With("*Result", OpContent(ct, b), Done(ResultWithContent(v, ct, b)))
                 \/ \E sh \in Shapes : With("*Result", OpValue(Other(sh)), Done(ResultWithValue(v, Other(sh))))
                 \/ \E k \in HeaderKeys, hv \in HeaderValues :
                        LET c == ResultWithHeader(v, k, hv)
                        IN  With("*Result", OpHeader("WithHeader", k, hv),
                                 [panicked |-> c.panicked, perr |-> c.perr, v |-> c.r])
                 \/ \E h \in HeaderArgs : \E order \in Perms(DOMAIN h) :
                        LET c == ResultWithHeaders(v, h, order)
                        IN  With("*Result", OpHeaders(h),
                                 [panicked |-> c.panicked, perr |-> c.perr, v |-> c.r])
                 \/ \E k \in {KeyXCustomLower}, hv \in HeaderValues :
                        LET c == ResultWithNonCanonicalHeader(v, k, hv)
                        IN  With("*Result", OpHeader("WithNonCanonicalHeader", k, hv),
                                 [panicked |-> c.panicked, perr |-> c.perr, v |-> c.r])
           \/ /\ val[1].kind = "*Error"
              /\ \/ \E pr \in Props :
                        With("*Error", Op("WithProperty"), Done(ErrorWithProperty(v, pr[1], pr[2])))
                 \/ With("*Error", Op("WithMessage"), Done(ErrorWithMessage(v, "msg")))
                 \/ With("*Error", Op("WithHelp"), Done(ErrorWithHelp(v, "help")))
                 \/ \E k \in {KeyXCustom, KeyXCustomLower}, hv \in HeaderValues :
                        With("*Error", OpHeader("WithHeader", k, hv), Done(ErrorWithHeader(v, k, hv)))
                 \/ \E h \in HeaderArgs \ {EmptyMap} : \E order \in Perms(DOMAIN h) :
                        With("*Error", OpHeaders(h), Done(ErrorWithHeaders(v, h, order)))
                 \/ \E k \in {KeyXCustomLower}, hv \in {IntVal(42)} :
                        With("*Error", OpHeader("WithNonCanonicalHeader", k, hv),
                             Done(ErrorWithNonCanonicalHeader(v, k, hv)))
           \/ /\ val[1].kind = "*Problem"
              /\ \/ \E pr \in Props \cup {<<"title", StrVal("v")>>} :
                        LET c == ProblemWithProperty(v, pr[1], pr[2])
                        IN  With("*Problem", Op("WithProperty"), [panicked |-> c.panicked, perr |-> c.perr, v |-> c.p])
                 \/ With("*Problem", Op("WithDetail"), Done(ProblemWithDetail(v, "detail")))
                 \/ With("*Problem", Op("WithInstance"), Done(ProblemWithInstance(v, ExampleURL)))
                 \/ With("*Problem", Op("WithType"), Done(ProblemWithType(v, ExampleURL, <<"a", "title">>)))
    /\ UNCHANGED <<conc, projection, made, rq, apirq, response, rw, wire, logged, marshalled, called, deferred,
                   recovering, writeFails>>

\* the endpoint returns the value it holds
EndpointReturn ==
    /\ pc = "endpoint"
    /\ val # <<>>
    /\ pc' = "respond"
    /\ UNCHANGED <<conc, projection, made, rq, apirq, val, ops, response, rw, wire, logged, marshalled, called,
                   deferred, panicv, panicAt, recovering, writeFails>>

\* the endpoint panics with a value of its own; what it was building is lost
EndpointPanic ==
    /\ pc = "endpoint"
    /\ Raise(NewErr("boom"), "endpoint")
    /\ val' = <<>>
    /\ ops' = <<>>
    /\ made' = <<>>
    /\ UNCHANGED <<conc, projection, rq, apirq, response, rw, wire, logged, marshalled, called,
                   deferred, recovering, writeFails>>

\* response := makeRequestResponse(apirq, result)
Respond ==
    /\ pc = "respond"
    /\ LET o == makeResponse(apirq[1], val[1])
       IN  /\ logged' = logged \o o.logs
           /\ marshalled' = marshalled \o o.calls
           /\ IF o.panicked
              THEN Raise(o.perr, "respond") /\ UNCHANGED <<response, val>>
              ELSE /\ response' = o.resp
                   /\ pc' = "write"
                   /\ NoPanic
                   /\ val' = IF val[1].kind = "*Error"
                             THEN <<Value("*Error", Resolved(val[1].v, apirq[1]))>>
                             ELSE val
    /\ UNCHANGED <<conc, projection, made, rq, apirq, ops, rw, wire, called, deferred, recovering, writeFails>>

\* the deferred function without its LogError call
Recover_silent ==
    /\ pc = "recover"
    /\ recovering' = TRUE
    /\ LET r == panicv[1]
           e == InternalServerError(<<ArgErr(Errorf("panic: ", r.text))>>).e
           o == makeErrorResponse(e, apirq[1])
       IN  /\ logged' = logged \o o.logs
           /\ marshalled' = marshalled \o o.calls
           /\ IF o.panicked
              THEN pc' = "crashed" /\ UNCHANGED response
              ELSE response' = o.resp /\ pc' = "write"
    /\ UNCHANGED <<conc, projection, made, rq, apirq, val, ops, rw, wire, called, deferred, panicv, panicAt, writeFails>>

\* the deferred function: recover(), LogError, and a 500 Error response
Recover ==
    /\ pc = "recover"
    /\ recovering' = TRUE
    /\ LET r == panicv[1]
           e == InternalServerError(<<ArgErr(Errorf("panic: ", r.text))>>).e
           o == makeErrorResponse(e, apirq[1])
       IN  /\ logged' = logged \o <<InternalError(Errorf("", r.text), "handler panic", "")>>
                               \o o.logs
           /\ marshalled' = marshalled \o o.calls
           /\ IF o.panicked
              THEN pc' = "crashed" /\ UNCHANGED response
              ELSE response' = o.resp /\ pc' = "write"
    /\ UNCHANGED <<conc, projection, made, rq, apirq, val, ops, rw, wire, called, deferred, panicv, panicAt, writeFails>>

----------------------------------------------------------------------------
(* Response.write *)

\* the loop over r.headers, in the order the map iteration yields its keys
RECURSIVE SetHeaders(_, _, _)
SetHeaders(h, headers, order) ==
    IF Len(order) = 0 THEN h
    ELSE SetHeaders(MapPut(h, Head(order), <<Sprint(headers[Head(order)])>>), headers, Tail(order))

\* Response.write committing the status before it sets the headers
write_headers_after_status ==
    /\ pc = "write"
    /\ ~InvalidWriteHeaderCode(response[1].StatusCode)
    /\ LET r == response[1]
       IN  \E order \in Perms(DOMAIN r.headers) :
               /\ rw' = [WriteHeader(rw, r.StatusCode) EXCEPT !.header =
                            SetHeaders(HeaderAdd(rw.header, KeyContentType, r.ContentType),
                                       r.headers, order)]
               /\ wire' = wire \o <<CallWriteHeader(r.StatusCode),
                                     CallHeader("Header.Add", KeyContentType, r.ContentType)>>
                               \o [i \in 1..Len(order) |->
                                      CallHeader("Header[]=", order[i], Sprint(r.headers[order[i]]))]
    /\ pc' = "body"
    /\ UNCHANGED <<conc, projection, made, rq, apirq, val, ops, response, logged, marshalled, called, deferred,
                   panicv, panicAt, recovering, writeFails>>

\* rw.Header().Add("Content-Type", r.ContentType), then every header of the Response
write_headers ==
    /\ pc = "write"
    /\ LET r == response[1]
       IN  \E order \in Perms(DOMAIN r.headers) :
               /\ rw' = [rw EXCEPT !.header =
                            SetHeaders(HeaderAdd(rw.header, KeyContentType, r.ContentType),
                                       r.headers, order)]
               /\ wire' = wire \o <<CallHeader("Header.Add", KeyContentType, r.ContentType)>>
                               \o [i \in 1..Len(order) |->
                                      CallHeader("Header[]=", order[i], Sprint(r.headers[order[i]]))]
    /\ pc' = "status"
    /\ UNCHANGED <<conc, projection, made, rq, apirq, val, ops, response, logged, marshalled, called, deferred,
                   panicv, panicAt, recovering, writeFails>>

\* rw.WriteHeader(r.StatusCode)
write_status ==
    /\ pc = "status"
    /\ LET code == response[1].StatusCode
       IN  /\ wire' = Append(wire, CallWriteHeader(code))
           /\ IF InvalidWriteHeaderCode(code) /\ rw.status = 0
              THEN /\ Raise(NewErr("invalid WriteHeader code " \o ToString(code)), "write")
                   /\ UNCHANGED rw
              ELSE /\ rw' = WriteHeader(rw, code)
                   /\ pc' = "body"
                   /\ NoPanic
    /\ UNCHANGED <<conc, projection, made, rq, apirq, val, ops, response, logged, marshalled, called, deferred,
                   recovering, writeFails>>

\* Response.write dropping the error of responseWriterWrite
write_body_unlogged ==
    /\ pc = "body"
    /\ \E fails \in BOOLEAN :
           /\ rw' = Write(rw, response[1].Content, fails)
           /\ writeFails' = fails
           /\ wire' = Append(wire, CallWrite(response[1].Content))
    /\ pc' = "done"
    /\ UNCHANGED <<conc, projection, made, rq, apirq, val, ops, response, logged, marshalled, called, deferred,
                   panicv, panicAt, recovering>>

\* Response.write starting over once when the body write fails
write_body_retry ==
    /\ pc = "body"
    /\ \E fails \in BOOLEAN :
       LET r == response[1]
           err == WriteError(rw, r.Content, fails)
       IN  /\ rw' = Write(rw, r.Content, fails)
           /\ writeFails' = fails
           /\ wire' = Append(wire, CallWrite(r.Content))
           /\ logged' = IF Len(err) > 0
                        THEN Append(logged,
                                 InternalError(err[1], "error writing response",
                                     "(response: " \o ToString(r.StatusCode) \o " "
                                         \o StatusText(r.StatusCode) \o "): rw.Write() error: "
                                         \o err[1].text))
                        ELSE logged
           /\ pc' = IF Len(err) > 0 /\ ~writeFails THEN "write" ELSE "done"
    /\ UNCHANGED <<conc, projection, made, rq, apirq, val, ops, response, marshalled, called, deferred, panicv,
                   panicAt, recovering>>

\* responseWriterWrite(rw, r.Content), and LogError if it fails
write_body ==
    /\ pc = "body"
    /\ \E fails \in BOOLEAN :
       LET r == response[1]
           err == WriteError(rw, r.Content, fails)
       IN  /\ rw' = Write(rw, r.Content, fails)
           /\ writeFails' = fails
           /\ wire' = Append(wire, CallWrite(r.Content))
           /\ logged' = IF Len(err) > 0
                        THEN Append(logged,
                                 InternalError(err[1], "error writing response",
                                     "(response: " \o ToString(r.StatusCode) \o " "
                                         \o StatusText(r.StatusCode) \o "): rw.Write() error: "
                                         \o err[1].text))
                        ELSE logged
    /\ pc' = "done"
    /\ UNCHANGED <<conc, projection, made, rq, apirq, val, ops, response, marshalled, called, deferred, panicv,
                   panicAt, recovering>>

----------------------------------------------------------------------------
(* Specifications *)

\* a request arrives at the http.HandlerFunc that HandlerFunc returned
Init ==
    /\ pc = "start"
    /\ rq \in {InboundRequest(a) : a \in AcceptValues}
    /\ writeFails = FALSE
    /\ apirq = <<>>
    /\ val = <<>>
    /\ ops = <<>>
    /\ response = <<>>
    /\ rw = NewResponseWriter
    /\ wire = <<>>
    /\ logged = <<>>
    /\ marshalled = <<>>
    /\ called = FALSE
    /\ deferred = FALSE
    /\ panicv = <<>>
    /\ panicAt = ""
    /\ recovering = FALSE
    /\ projection = "default"
    /\ shared = <<>>
    /\ handlers = <<>>
    /\ made = <<>>

Next ==
    \/ Negotiate
    \/ NegotiateFailed
    \/ EndpointNew
    \/ EndpointWith
    \/ EndpointReturn
    \/ EndpointPanic
    \/ Respond
    \/ Recover
    \/ write_headers
    \/ write_status
    \/ write_body

Spec == Init /\ [][Next]_vars

\* Response.write called on its own, on any Response the package can hold
StatusCodes == {0, 100, 200, 204, 404, 1000}

HeaderMaps == UNION {[S -> HeaderValues] : S \in SUBSET HeaderKeys}

InitWrite ==
    /\ pc = "write"
    /\ rq = InboundRequest("")
    /\ writeFails = FALSE
    /\ response \in {<<Response(sc, ct, c, h)>> :
                        sc \in StatusCodes, ct \in {"", "application/json"},
                        c \in {NilContent, Bytes(<<1, 2>>)}, h \in HeaderMaps}
    /\ apirq = <<>>
    /\ val = <<>>
    /\ ops = <<>>
    /\ rw = NewResponseWriter
    /\ wire = <<>>
    /\ logged = <<>>
    /\ marshalled = <<>>
    /\ called = FALSE
    /\ deferred = FALSE
    /\ panicv = <<>>
    /\ panicAt = ""
    /\ recovering = FALSE
    /\ projection = "default"
    /\ shared = <<>>
    /\ handlers = <<>>
    /\ made = <<>>

NextWrite ==
    \/ write_headers
    \/ write_status
    \/ write_body

SpecWrite == InitWrite /\ [][NextWrite]_vars

\* Error literals with a status NewError would not give, as code inside the
\* package (its tests) can write them: the statusCode field is unexported
ErrorLiterals == {[ZeroError EXCEPT !.statusCode = c] : c \in {-1, 200, 399, 400, 599, 600}}

\* the handler serving an endpoint that may hold such a literal from the start
InitLiteral ==
    /\ pc = "start"
    /\ rq \in {InboundRequest(a) : a \in AcceptValues}
    /\ writeFails = FALSE
    /\ apirq = <<>>
    /\ \/ val = <<>> /\ made = <<>>
       \/ \E e \in ErrorLiterals :
              val = <<Value("*Error", e)>> /\ made = Constructed("&Error{}", <<>>)
    /\ ops = <<>>
    /\ response = <<>>
    /\ rw = NewResponseWriter
    /\ wire = <<>>
    /\ logged = <<>>
    /\ marshalled = <<>>
    /\ called = FALSE
    /\ deferred = FALSE
    /\ panicv = <<>>
    /\ panicAt = ""
    /\ recovering = FALSE
    /\ projection = "default"
    /\ shared = <<>>
    /\ handlers = <<>>

SpecLiteral == InitLiteral /\ [][Next]_vars

\* the same handler in an application that has replaced ProjectError
InitCustom ==
    /\ pc = "start"
    /\ rq \in {InboundRequest(a) : a \in AcceptValues}
    /\ writeFails = FALSE
    /\ apirq = <<>>
    /\ val = <<>>
    /\ made = <<>>
    /\ ops = <<>>
    /\ response = <<>>
    /\ rw = NewResponseWriter
    /\ wire = <<>>
    /\ logged = <<>>
    /\ marshalled = <<>>
    /\ called = FALSE
    /\ deferred = FALSE
    /\ panicv = <<>>
    /\ panicAt = ""
    /\ recovering = FALSE
    /\ projection = "custom"
    /\ shared = <<>>
    /\ handlers = <<>>

SpecCustom == InitCustom /\ [][Next]_vars

----------------------------------------------------------------------------
(* Two invocations of the handler running concurrently, both endpoints    *)
(* returning the same *Error. net/http serves each request on a goroutine *)
(* of its own, so the statements of Request.makeResponse and              *)
(* makeErrorResponse that read and write the fields of the Error          *)
(* interleave freely; each action below is one such statement.            *)

\* the state of the handler of one request
single == <<pc, rq, apirq, val, ops, response, rw, wire, logged, marshalled,
            called, deferred, panicv, panicAt, recovering, writeFails, made, projection>>

\* the Error values a package-level variable may hold
Sentinels ==
    {ZeroError,
     NewError(<<ArgInt(404), ArgStr("missing")>>).e,
     NewError(<<ArgStr("denied"), ArgInt(403)>>).e,
     NewError(<<ArgErr(NewErr("cause"))>>).e}

\* the two requests being served
Requests == <<InboundRequest(""), OtherRequest>>

Handlers == 1..2

\* the clock reading nowUTC() gives to handler h
nowAt(h) == nowUTC + h

Goto(h, to) == handlers' = [handlers EXCEPT ![h].pc = to]

\* result := h(rq.Context(), rq): the endpoint returns the shared pointer
HReturn(h) ==
    /\ handlers[h].pc = "endpoint"
    /\ handlers' = [handlers EXCEPT ![h].pc = "dispatch", ![h].returned = shared]
    /\ UNCHANGED <<shared, single>>

\* case *Error: result.request = rq.Request
HDispatch(h) ==
    /\ handlers[h].pc = "dispatch"
    /\ shared' = <<[shared[1] EXCEPT !.request = <<handlers[h].rq>>]>>
    /\ Goto(h, "statusCode")
    /\ UNCHANGED single

\* e.statusCode = coalesce(e.statusCode, http.StatusInternalServerError)
HStatusCode(h) ==
    /\ handlers[h].pc = "statusCode"
    /\ shared' = <<[shared[1] EXCEPT !.statusCode = coalesce(shared[1].statusCode, 500)]>>
    /\ Goto(h, "timeStamp")
    /\ UNCHANGED single

\* e.timeStamp = coalesce(e.timeStamp, nowUTC())
HTimeStamp(h) ==
    /\ handlers[h].pc = "timeStamp"
    /\ shared' = <<[shared[1] EXCEPT !.timeStamp = coalesce(shared[1].timeStamp, nowAt(h))]>>
    /\ Goto(h, "request")
    /\ UNCHANGED single

\* e.request = rq.Request
HRequest(h) ==
    /\ handlers[h].pc = "request"
    /\ shared' = <<[shared[1] EXCEPT !.request = <<handlers[h].rq>>]>>
    /\ Goto(h, "project")
    /\ UNCHANGED single

\* p := ProjectError(e.info())
HProject(h) ==
    /\ handlers[h].pc = "project"
    /\ handlers' = [handlers EXCEPT ![h].pc = "respond",
                                    ![h].projected = <<ProjectError(info(shared[1]))>>]
    /\ UNCHANGED <<shared, single>>

\* statusCode := e.statusCode, the StatusCode of the Response returned
HRespond(h) ==
    /\ handlers[h].pc = "respond"
    /\ handlers' = [handlers EXCEPT ![h].pc = "done", ![h].status = shared[1].statusCode]
    /\ UNCHANGED <<shared, single>>

InitShared ==
    /\ pc = "concurrent"
    /\ rq = Requests[1]
    /\ writeFails = FALSE
    /\ apirq = <<>>
    /\ val = <<>>
    /\ ops = <<>>
    /\ response = <<>>
    /\ rw = NewResponseWriter
    /\ wire = <<>>
    /\ logged = <<>>
    /\ marshalled = <<>>
    /\ called = FALSE
    /\ deferred = FALSE
    /\ panicv = <<>>
    /\ panicAt = ""
    /\ recovering = FALSE
    /\ projection = "default"
    /\ made = <<>>
    /\ shared \in {<<e>> : e \in Sentinels}
    /\ handlers = [h \in Handlers |->
                      [pc |-> "endpoint", rq |-> Requests[h], returned |-> <<>>,
                       projected |-> <<>>, status |-> 0]]

NextShared ==
    \E h \in Handlers :
        \/ HReturn(h)
        \/ HDispatch(h)
        \/ HStatusCode(h)
        \/ HTimeStamp(h)
        \/ HRequest(h)
        \/ HProject(h)
        \/ HRespond(h)

SpecShared == InitShared /\ [][NextShared]_vars

----------------------------------------------------------------------------
(* Properties *)

\* what the documentation promises of negotiation, stated without newRequest
Supported == {"", "*/*", "application/json", "application/xml", "text/json", "text/xml"}

Negotiated == IF rq.accept \in {"", "*/*"} THEN "application/json" ELSE rq.accept

NegotiatedJSON == Negotiated \in {"application/json", "text/json"}

\* the last call made on the ResponseWriter
LastCall == wire[Len(wire)]

\* an Error whose default projection the negotiated encoder rejects: a channel
\* among the properties for JSON, an empty property key for XML
ProjectionUnmarshallable(e) ==
    IF NegotiatedJSON
    THEN \E k \in DOMAIN e.properties : e.properties[k] = ChanVal
    ELSE "" \in DOMAIN e.properties

\* an application value the negotiated encoder rejects
ValueUnmarshallable(v) ==
    v.kind = "other" /\ (v.shape = "chan" \/ (v.shape = "map" /\ ~NegotiatedJSON))

\* the value makeResultResponse is asked to marshal for the returned value, if any
ResultValue ==
    IF val[1].kind = "other" THEN <<val[1].v>>
    ELSE IF val[1].kind = "*Result" /\ Len(val[1].v.contentType) = 0 THEN val[1].v.content
    ELSE <<>>

\* the endpoint has returned and makeResponse has built a Response from val
Responded == pc = "write" /\ panicAt = "" /\ val # <<>>

\* C1: a panic raised while the endpoint runs never reaches the caller of the
\* handler; it ends in a 500 response written with the content type that was
\* negotiated before the endpoint ran.
C1_EndpointPanicContained ==
    panicAt = "endpoint" =>
        /\ pc # "crashed"
        /\ pc = "done" =>
              /\ rw.status = 500
              /\ KeyContentType \in DOMAIN rw.sent
              /\ rw.sent[KeyContentType] = <<Negotiated>>
              /\ response[1].StatusCode = 500
              /\ response[1].Content.kind = "marshalled"
              /\ response[1].Content.of.kind = "errorResponse"
              /\ response[1].Content.of.Status = 500
              /\ LastCall = CallWrite(response[1].Content)

C1_Witness ==
    /\ pc = "done"
    /\ panicAt = "endpoint"
    /\ panicv = <<NewErr("boom")>>
    /\ rq.accept = "text/xml"
    /\ rw.status = 500
    /\ rw.sent[KeyContentType] = <<"text/xml">>

IsHeaderCall(c) == c.op \in {"Header.Add", "Header.Set", "Header[]="}

\* the string a header value is sent as
Rendered(v) == CASE v = IntVal(42) -> "42" [] v = StrVal("v") -> "v"

\* C2: Response.write sets Content-Type first, then every header of the
\* Response with its value rendered as a string, then calls WriteHeader, then
\* Write; no header is set once the status is committed and no body is written
\* before it.
C2_WriteOrder ==
    /\ \A i, j \in 1..Len(wire) : i < j =>
          /\ ~(wire[i].op \in {"WriteHeader", "Write"} /\ IsHeaderCall(wire[j]))
          /\ ~(wire[i].op = "Write" /\ wire[j].op = "WriteHeader")
    /\ Len(wire) > 0 =>
          wire[1] = CallHeader("Header.Add", KeyContentType, response[1].ContentType)
    /\ (\E i \in 1..Len(wire) : wire[i].op = "WriteHeader") =>
          \A k \in DOMAIN response[1].headers :
              \E i \in 2..Len(wire) :
                  wire[i] = CallHeader("Header[]=", k, Rendered(response[1].headers[k]))
    /\ rw.status # 0 => rw.sent = rw.header
    /\ rw.body # <<>> => rw.status # 0
    /\ pc = "done" =>
          /\ LastCall = CallWrite(response[1].Content)
          /\ wire[Len(wire) - 1] = CallWriteHeader(response[1].StatusCode)
          /\ Len(wire) = Cardinality(DOMAIN response[1].headers) + 3

C2_Witness ==
    /\ pc = "done"
    /\ DOMAIN response[1].headers = HeaderKeys
    /\ response[1].headers[KeyXCustom] = IntVal(42)
    /\ rw.status = 404
    /\ rw.body = <<Bytes(<<1, 2>>)>>
    /\ rw.sent[KeyXCustom] = <<"42">>

\* C3: when marshalling the projection of an Error fails, the Response is 500
\* whatever the Error's status, plain/text, with a body holding the marshal
\* error text and the string form of the Error; the projection was marshalled
\* once, LogError was called once, and nothing panicked.
C3_ErrorMarshalFallback ==
    (Responded /\ val[1].kind = "*Error" /\ ProjectionUnmarshallable(val[1].v)) =>
        LET r == response[1]
            errText == IF NegotiatedJSON THEN "json: unsupported type"
                       ELSE "xml: start tag with no name"
        IN  /\ r.StatusCode = 500
            /\ r.ContentType = "plain/text"
            /\ r.Content.kind = "text"
            /\ \E i \in 1..Len(r.Content.lines) : r.Content.lines[i] = "   " \o errText
            /\ \E i \in 1..Len(r.Content.lines) :
                   r.Content.lines[i] = "   " \o ErrorString(val[1].v)
            /\ Len(marshalled) = 1
            /\ marshalled[1].kind = "errorResponse"
            /\ Len(logged) = 1
            /\ logged[1].Err.text = errText
            /\ logged[1].Message = "error marshalling error response"
            /\ panicv = <<>>

C3_Witness ==
    /\ Responded
    /\ val[1].kind = "*Error"
    /\ val[1].v.statusCode = 404
    /\ rq.accept = "application/json"
    /\ response[1].StatusCode = 500
    /\ response[1].ContentType = "plain/text"
    /\ response[1].Content.kind = "text"
    /\ response[1].Content.lines[4] = "   json: unsupported type"
    /\ response[1].Content.lines[7] = "   404 Not Found: missing"

\* C4: when the value of a Result fails to marshal, the Response is 500 with
\* the negotiated content type, its body is the projection of an Error naming
\* ErrMarshalResultFailed and the marshal error, never the value, and LogError
\* was called with the marshal error.
C4_ResultMarshalFailure ==
    (Responded /\ Len(ResultValue) = 1 /\ ValueUnmarshallable(ResultValue[1])) =>
        LET r == response[1]
            errText == IF NegotiatedJSON THEN "json: unsupported type"
                       ELSE "xml: unsupported type"
        IN  /\ r.StatusCode = 500
            /\ r.ContentType = Negotiated
            /\ r.Content.kind = "marshalled"
            /\ r.Content.of.kind = "errorResponse"
            /\ r.Content.of.Status = 500
            /\ r.Content.of.Message = "error marshalling response: " \o errText
            /\ r.Content.of # ResultValue[1]
            /\ Len(logged) = 1
            /\ logged[1].Err.text = errText
            /\ logged[1].Message = "error marshalling Result response"

C4_Witness ==
    /\ Responded
    /\ val[1].kind = "*Result"
    /\ val[1].v.statusCode = 201
    /\ val[1].v.content = <<Other("map")>>
    /\ rq.accept = "application/xml"
    /\ response[1].StatusCode = 500
    /\ response[1].ContentType = "application/xml"
    /\ response[1].Content.of.Message = "error marshalling response: xml: unsupported type"

\* C5: for an Accept value outside the supported set the handler commits 406
\* with Content-Type application/json, writes the fixed list of types, calls
\* LogError, and never invokes the endpoint.
C5_NotAcceptable ==
    rq.accept \notin Supported =>
        /\ ~called
        /\ pc \in {"start", "done"}
        /\ pc = "done" =>
              /\ rw.status = 406
              /\ rw.sent = [k \in {KeyContentType} |-> <<"application/json">>]
              /\ LastCall.op = "Write"
              /\ LastCall.content.kind = "literal"
              /\ LastCall.content.s =
                     "[\"application/json\",\"application/xml\",\"text/json\",\"test/xml\",\"*/*\",none]"
              /\ ~writeFails => rw.body = <<LastCall.content>>
              /\ Len(logged) >= 1
              /\ logged[1].Err.text = "no formatter for content type"

C5_Witness ==
    /\ pc = "done"
    /\ rq.accept = "text/plain"
    /\ ~called
    /\ rw.status = 406
    /\ Len(rw.body) = 1
    /\ Len(logged) = 1

\* the priority the documentation gives the type switch
DocumentedPriority == <<"*Error", "*Problem", "*Result", "error", "[]byte", "int">>

IsA(v, type) == IF type = "error" THEN v.kind \in {"*Error", "error"} ELSE v.kind = type

DocumentedBranch(v) ==
    LET hits == {i \in 1..Len(DocumentedPriority) : IsA(v, DocumentedPriority[i])}
    IN  IF hits = {} THEN "default"
        ELSE DocumentedPriority[CHOOSE i \in hits : \A j \in hits : i <= j]

ProblemUnset(p) ==
    /\ Len(p.Type) = 0 /\ p.Title = "" /\ p.Status <= 0 /\ p.Detail = ""
    /\ Len(p.Instance) = 0 /\ DOMAIN p.props = {}

\* the Response and the marshal calls carry the mark of the documented branch
DispatchedAsDocumented ==
    LET v == val[1]
        r == response[1]
        b == DocumentedBranch(v)
    IN  CASE b = "*Error" ->
                 /\ Len(marshalled) = 1
                 /\ marshalled[1].kind = "errorResponse"
                 /\ marshalled[1].Status = v.v.statusCode
                 /\ marshalled[1].Help = ifNotNil(v.v.help)
          [] b = "*Problem" -> Len(marshalled) >= 1 /\ marshalled[1].kind = "map"
          [] b = "*Result" ->
                 IF Len(v.v.content) = 0
                 THEN r.StatusCode = v.v.statusCode /\ r.Content = NilContent /\ marshalled = <<>>
                 ELSE IF Len(v.v.contentType) > 0
                 THEN r.StatusCode = v.v.statusCode /\ r.Content = v.v.content[1]
                          /\ marshalled = <<>>
                 ELSE marshalled[1] = v.v.content[1]
          [] b = "error" ->
                 /\ Len(marshalled) = 1
                 /\ marshalled[1].kind = "errorResponse"
                 /\ marshalled[1].Status = 500
                 /\ marshalled[1].Message = v.v.text
                 /\ r.StatusCode = 500
          [] b = "[]byte" ->
                 /\ marshalled = <<>>
                 /\ IF Len(v.v) = 0
                    THEN r.StatusCode = 204 /\ r.Content = NilContent
                    ELSE r.StatusCode = 200 /\ r.ContentType = "application/octet-stream"
                             /\ r.Content = Bytes(v.v)
          [] b = "int" ->
                 r.StatusCode = v.v /\ r.ContentType = "" /\ r.Content = NilContent
                     /\ marshalled = <<>>
          [] OTHER ->
                 IF v.kind = "nil"
                 THEN r.StatusCode = 200 /\ r.Content = NilContent /\ marshalled = <<>>
                 ELSE /\ marshalled[1] = v.v
                      /\ ~ValueUnmarshallable(v.v) =>
                             /\ r.StatusCode = 200
                             /\ r.ContentType = Negotiated
                             /\ r.Content.of = v.v

OwnMarshal(ct) ==
    CASE ct = "application/json" -> "json.Marshal"
      [] ct = "application/xml" -> "xml.Marshal"
      [] ct = "text/json" -> "json.MarshalIndent"
      [] ct = "text/xml" -> "xml.MarshalIndent"

\* C7: newRequest resolves "" and "*/*" to application/json, each registered
\* type to itself with its own marshal function, and fails with
\* ErrInvalidAcceptHeader, returning no Request, for every other value.
C7_Negotiation ==
    pc # "start" =>
        IF rq.accept \in Supported
        THEN apirq = <<[Request |-> rq, Accept |-> Negotiated,
                        MarshalContent |-> OwnMarshal(Negotiated)]>>
        ELSE /\ apirq = <<>>
             /\ logged[1].Err = NewErr("no formatter for content type")
             /\ logged[1].Message = "error initialising request"

C7_Witness ==
    /\ pc = "endpoint"
    /\ rq.accept = "*/*"
    /\ apirq[1].Accept = "application/json"
    /\ apirq[1].MarshalContent = "json.Marshal"

\* the WithContent and WithValue calls the endpoint made, in order
ContentCalls == SelectSeq(ops, LAMBDA o : o.op \in {"WithContent", "WithValue"})

\* C8: a Result whose content was set by WithContent(type, bytes) yields a
\* Response with exactly that type and those bytes under every Accept value,
\* and no marshal function is called.
C8_ExplicitContent ==
    (/\ Responded
     /\ val[1].kind = "*Result"
     /\ Len(ContentCalls) > 0
     /\ ContentCalls[Len(ContentCalls)].op = "WithContent") =>
        LET c == ContentCalls[Len(ContentCalls)]
        IN  /\ response[1].ContentType = c.ct
            /\ response[1].Content.kind = "bytes"
            /\ response[1].Content.data = c.data
            /\ marshalled = <<>>
            /\ logged = <<>>

C8_Witness ==
    /\ Responded
    /\ val[1].kind = "*Result"
    /\ rq.accept = "application/xml"
    /\ Len(ops) = 2
    /\ ops[1].op = "WithValue"
    /\ ops[2] = OpContent("text/csv", <<1, 2>>)
    /\ response[1].ContentType = "text/csv"
    /\ response[1].Content = Bytes(<<1, 2>>)

\* C9: a Problem response has content type application/problem+json and the
\* same JSON serialization under every supported Accept value.
C9_ProblemMediaType ==
    (Responded /\ val[1].kind = "*Problem") =>
        /\ response[1].ContentType = "application/problem+json"
        /\ response[1].Content.kind = "marshalled"
        /\ response[1].Content.by = "json.Marshal"
        /\ response[1].Content.of.kind = "map"

\* the body the recovered handler writes: the projection of a 500 Error
\* naming the panic, not the panic value itself
PanicBodyProjected ==
    /\ rw.status = 500
    /\ LastCall.op = "Write"
    /\ LastCall.content.kind = "marshalled"
    /\ LastCall.content.of.kind = "errorResponse"
    /\ LastCall.content.of.Status = 500
    /\ LastCall.content.of.Message = "panic: " \o panicv[1].text

\* C10 as stated: when the endpoint panics LogError is invoked exactly once
\* during the request, the status is 500 and the body a projected 500 Error.
C10_PanicLoggedOnce ==
    (pc = "done" /\ panicAt = "endpoint") => Len(logged) = 1 /\ PanicBodyProjected

\* C10 (amended): when the endpoint panics LogError is invoked exactly once
\* for the panic, and once more only if writing the body fails; the status is
\* 500 and the body a projected 500 Error, not the panic value.
C10_PanicLogged ==
    panicAt = "endpoint" =>
        /\ pc \in {"write", "status", "body", "done"} =>
              /\ Len(logged) >= 1
              /\ logged[1].Message = "handler panic"
              /\ logged[1].Err.text = panicv[1].text
        /\ pc \in {"write", "status", "body"} => Len(logged) = 1
        /\ pc = "done" =>
              /\ Len(logged) = IF writeFails THEN 2 ELSE 1
              /\ writeFails => logged[2].Message = "error writing response"
              /\ PanicBodyProjected

C10_Witness ==
    /\ pc = "done"
    /\ panicAt = "endpoint"
    /\ panicv = <<NewErr("boom")>>
    /\ ~writeFails
    /\ Len(logged) = 1
    /\ rw.status = 500
    /\ rw.body = <<LastCall.content>>
    /\ LastCall.content.of.Message = "panic: boom"

\* the transport error a failing responseWriterWrite returns
BrokenPipe == "write: broken pipe"

\* the Write calls made on the ResponseWriter so far
Writes(w) == SelectSeq(w, LAMBDA c : c.op = "Write")

\* C11: when writing the body fails, LogError is called once with the write
\* error and the response context (the status line of the response, or the
\* request error), the committed status stays as it was, nothing is written
\* after the failed Write, the handler returns without a panic, and it takes
\* no further step.
C11_WriteFailureLogged ==
    [][/\ pc # "done"
       /\ (pc = "body" /\ writeFails') =>
              LET code == response[1].StatusCode
              IN  /\ Len(logged') = Len(logged) + 1
                  /\ SubSeq(logged', 1, Len(logged)) = logged
                  /\ logged'[Len(logged')].Err.text = BrokenPipe
                  /\ logged'[Len(logged')].Message = "error writing response"
                  /\ logged'[Len(logged')].Help =
                         "(response: " \o ToString(code) \o " " \o StatusText(code)
                             \o "): rw.Write() error: " \o BrokenPipe
                  /\ rw.status # 0 => rw'.status = rw.status
                  /\ rw'.body = rw.body
                  /\ Len(Writes(wire')) = 1
                  /\ wire'[Len(wire')].op = "Write"
                  /\ panicv' = panicv
                  /\ pc' = "done"
       /\ (pc = "start" /\ writeFails') =>
              /\ Len(logged') = 2
              /\ logged'[2].Err.text = BrokenPipe
              /\ logged'[2].Message = "error writing request error response"
              /\ logged'[2].Help = "(request error: no formatter for content type): rw.Write() error: "
                                       \o BrokenPipe
              /\ rw'.status = 406
              /\ rw'.body = <<>>
              /\ Len(Writes(wire')) = 1
              /\ panicv' = <<>>
              /\ pc' = "done"]_vars

C11_Witness ==
    /\ pc = "done"
    /\ writeFails
    /\ panicv = <<>>
    /\ rw.status = 201
    /\ rw.body = <<>>
    /\ Len(logged) = 1
    /\ logged[1].Message = "error writing response"
    /\ logged[1].Help = "(response: 201 Created): rw.Write() error: write: broken pipe"

\* the endpoint's value came from fn called with some arguments
MadeBy(fn) == made # <<>> /\ made[1].fn = fn

\* the endpoint panicked with an error wrapping ErrInvalidStatusCode
InvalidStatusPanic == panicAt = "endpoint" /\ ErrInvalidStatusCode \in panicv[1].chain

\* Status(n) gave a Result carrying n, which the endpoint holds until it
\* returns it or a later call panics for another reason
StatusAccepted(n) ==
    /\ ~InvalidStatusPanic
    /\ val # <<>> => val[1].kind = "*Result" /\ val[1].v.statusCode = n
    /\ pc = "endpoint" => val # <<>>

\* C12 as stated: Status(code) returns a Result carrying the code for every
\* code in [1,599] and panics with ErrInvalidStatusCode for every other code.
C12_StatusRange ==
    MadeBy("Status") =>
        LET n == made[1].args[1]
        IN  IF n >= 1 /\ n <= 599 THEN StatusAccepted(n) ELSE InvalidStatusPanic

\* C12 (amended): Status(code) returns a Result carrying the code for every
\* code in [100,599] and panics with ErrInvalidStatusCode for every other code.
C12_StatusRange1xx5xx ==
    MadeBy("Status") =>
        LET n == made[1].args[1]
        IN  IF n >= 100 /\ n <= 599 THEN StatusAccepted(n) ELSE InvalidStatusPanic

C12_Witness ==
    /\ made = Constructed("Status", <<99>>)
    /\ pc = "recover"
    /\ panicAt = "endpoint"
    /\ panicv = <<WrapErr("invalid statuscode", "99: valid range is 1xx-5xx")>>

\* the int arguments of a call, in order
Ints(args) == SelectSeq(args, LAMBDA a : a.t = "int")

ErrorStatus(c) == c >= 400 /\ c <= 599

\* C13: NewError with one explicit status code gives an Error with that code
\* for every code in [400,599] and panics with ErrInvalidStatusCode for every
\* other code; with no code the status is 500; an Error whose status is
\* neither 0 nor in [400,599] gets no Response: building it panics with
\* ErrInvalidStatusCode.
C13_ErrorStatusRange ==
    /\ (MadeBy("NewError") /\ Len(Ints(made[1].args)) = 1) =>
           LET c == Ints(made[1].args)[1].i
           IN  IF ErrorStatus(c)
               THEN panicAt # "endpoint" /\ val # <<>> /\ val[1].v.statusCode = c
               ELSE InvalidStatusPanic /\ val = <<>>
    /\ (MadeBy("NewError") /\ Len(Ints(made[1].args)) = 0) =>
           panicAt # "endpoint" /\ val # <<>> /\ val[1].v.statusCode = 500
    /\ (val # <<>> /\ val[1].kind = "*Error" /\ val[1].v.statusCode # 0
            /\ ~ErrorStatus(val[1].v.statusCode)) =>
           /\ ~Responded
           /\ response # <<>> => panicAt = "respond"
           /\ panicAt # "" =>
                  /\ panicAt = "respond"
                  /\ panicv = <<WrapErr("invalid statuscode",
                                  ToString(val[1].v.statusCode)
                                      \o ": valid range for error status is 4xx-5xx")>>

C13_Witness ==
    /\ made = Constructed("&Error{}", <<>>)
    /\ val = <<Value("*Error", [ZeroError EXCEPT !.statusCode = 600])>>
    /\ panicAt = "respond"
    /\ ErrInvalidStatusCode \in panicv[1].chain
    /\ pc = "done"
    /\ rw.status = 500

\* the status a fixed-status Error factory gives
FixedStatus(fn) ==
    CASE fn = "BadRequest" -> 400
      [] fn = "Unauthorized" -> 401
      [] fn = "Forbidden" -> 403
      [] fn = "NotFound" -> 404
      [] fn = "InternalServerError" -> 500

\* C14: in NewError only the first int argument determines the status and
\* every later int is ignored; in the fixed-status factories every int
\* argument is ignored: the call succeeds and the status is the first int,
\* or the factory's own status.
C14_LaterIntsIgnored ==
    /\ (MadeBy("NewError") /\ Len(Ints(made[1].args)) > 1
            /\ ErrorStatus(Ints(made[1].args)[1].i)) =>
           /\ panicAt # "endpoint"
           /\ val # <<>> /\ val[1].v.statusCode = Ints(made[1].args)[1].i
    /\ (made # <<>> /\ made[1].fn \in {"BadRequest", "Unauthorized", "Forbidden", "NotFound",
                                        "InternalServerError"}) =>
           /\ panicAt # "endpoint"
           /\ val # <<>> /\ val[1].v.statusCode = FixedStatus(made[1].fn)

\* the requests attached to an Error at construction, in argument order
Attached == IF MadeBy("NewError")
            THEN SelectSeq(made[1].args, LAMBDA a : a.t = "request")
            ELSE <<>>

\* C15: the projection of a returned Error takes its path and query from the
\* request attached at construction if one was given, and from the inbound
\* request only when none was attached.
C15_AttachedRequestKept ==
    (Responded /\ val[1].kind = "*Error") =>
        LET from == IF Attached # <<>> THEN Attached[Len(Attached)].r[1] ELSE rq
        IN  /\ marshalled[1].kind = "errorResponse"
            /\ marshalled[1].Path = from.path
            /\ marshalled[1].Query = from.query

\* the header calls the endpoint made on its value, in order
HeaderCalls ==
    SelectSeq(ops, LAMBDA o : o.op \in {"WithHeader", "WithHeaders", "WithNonCanonicalHeader"})

\* the canonical form of the keys the endpoint uses
Canonical(k) ==
    CASE k = <<"x", "-", "c">> -> <<"X", "-", "C">>
      [] k = <<"X", "-", "C">> -> <<"X", "-", "C">>
      [] k = <<"C", "o", "n", "t", "e", "n", "t", "-", "T", "y", "p", "e">> -> k

\* C16: WithHeader, WithHeaders and WithNonCanonicalHeader on a Result from
\* any factory never fail, also when no header was set before, and the
\* Result then holds the header.
C16_ResultHeadersUsable ==
    /\ (made # <<>> /\ made[1].fn \in {"Accepted", "Created", "NoContent", "NotImplemented",
                                        "OK", "Status"}) =>
           ~(panicAt = "endpoint" /\ panicv = <<NewErr("assignment to entry in nil map")>>)
    /\ (val # <<>> /\ val[1].kind = "*Result") =>
           \A i \in 1..Len(HeaderCalls) :
               LET o == HeaderCalls[i]
                   keys == CASE o.op = "WithHeader" -> {Canonical(o.k)}
                             [] o.op = "WithNonCanonicalHeader" -> {o.k}
                             [] o.op = "WithHeaders" -> {Canonical(k) : k \in DOMAIN o.headers}
               IN  keys # {} =>
                       /\ Len(val[1].v.headers) = 1
                       /\ keys \subseteq DOMAIN val[1].v.headers[1]

\* C17: every header set on an Error is a header of the Response built from
\* it, and is sent with it.
C17_ErrorHeadersSent ==
    (val # <<>> /\ val[1].kind = "*Error" /\ panicAt = "") =>
        \A k \in DOMAIN val[1].v.headers :
            /\ pc \in {"write", "status", "body", "done"} =>
                   /\ k \in DOMAIN response[1].headers
                   /\ response[1].headers[k] = val[1].v.headers[k]
            /\ pc = "done" =>
                   /\ k \in DOMAIN rw.sent
                   /\ rw.sent[k] = <<Rendered(val[1].v.headers[k])>>

\* the headers of the Error the endpoint holds
Stored(v) == v[1].v.headers

\* C18: canonical insertion is idempotent on the key: WithHeader with
\* "x-c" or "X-C" (and WithHeaders with either or both) leaves exactly the
\* key "X-C" for them, holding the value of the latest call, and leaves every
\* header under another key as it was.
C18_CanonicalInsertion ==
    [][(/\ pc = "endpoint" /\ pc' = "endpoint"
        /\ val # <<>> /\ val[1].kind = "*Error"
        /\ Len(ops') = Len(ops) + 1
        /\ ops'[Len(ops')].op \in {"WithHeader", "WithHeaders"}) =>
           LET o == ops'[Len(ops')]
               keys == IF o.op = "WithHeader" THEN {Canonical(o.k)}
                       ELSE {Canonical(k) : k \in DOMAIN o.headers}
               values(ck) == IF o.op = "WithHeader" THEN {o.v}
                             ELSE {o.headers[k] : k \in {j \in DOMAIN o.headers : Canonical(j) = ck}}
           IN  /\ DOMAIN Stored(val') = DOMAIN Stored(val) \cup keys
               /\ \A ck \in keys : Stored(val')[ck] \in values(ck)
               /\ \A j \in DOMAIN Stored(val) \ keys : Stored(val')[j] = Stored(val)[j]]_vars

C18_Witness ==
    /\ val # <<>>
    /\ val[1].kind = "*Error"
    /\ ops = <<OpHeader("WithHeader", <<"x", "-", "c">>, IntVal(42)),
               OpHeader("WithHeader", <<"X", "-", "C">>, StrVal("v"))>>
    /\ val[1].v.headers = [k \in {<<"X", "-", "C">>} |-> StrVal("v")]

\* one argument applied as the documentation of NewProblem describes it
DocumentedArg(p, arg) ==
    CASE arg.t = "int" -> [p EXCEPT !.Status = arg.i]
      [] arg.t = "url" -> [p EXCEPT !.Type = arg.u]
      [] arg.t = "string" -> [p EXCEPT !.Detail = arg.s]
      [] arg.t = "error" ->
             [p EXCEPT !.Status = IF p.Status = 0 THEN 500 ELSE p.Status,
                       !.Detail = IF p.Detail = "" THEN arg.e.text ELSE p.Detail]
      [] arg.t = "map" ->
             [p EXCEPT !.props = [k \in (DOMAIN p.props) \cup (DOMAIN arg.m) |->
                                     IF k \in DOMAIN arg.m THEN arg.m[k] ELSE p.props[k]]]

RECURSIVE DocumentedArgs(_, _)
DocumentedArgs(p, args) ==
    IF Len(args) = 0 THEN p ELSE DocumentedArgs(DocumentedArg(p, Head(args)), Tail(args))

\* the Problem the documentation promises for the arguments
DocumentedProblem(args) ==
    LET p == DocumentedArgs([Type |-> <<>>, Status |-> 0, Instance |-> <<>>, Detail |-> "",
                             Title |-> "", props |-> <<>>], args)
        status == IF p.Status = 0 THEN 500 ELSE p.Status
    IN  [p EXCEPT !.Status = status,
                  !.Detail = IF p.Detail = "" THEN StatusText(status) ELSE p.Detail]

\* C19: in NewProblem later int, string and URL arguments override earlier
\* ones, property maps merge with later keys winning, and an error argument
\* sets the status to 500 and the detail to its text only where they were
\* not set by an earlier argument.
C19_ProblemArguments ==
    (/\ MadeBy("NewProblem")
     /\ \A i \in 1..Len(made[1].args) : made[1].args[i].t # "other"
     /\ pc = "endpoint" /\ ops = <<>>) =>
        /\ val # <<>>
        /\ val[1].kind = "*Problem"
        /\ val[1].v = DocumentedProblem(made[1].args)

\* C20: building a Problem never fails for want of a field: NewProblem and
\* the With... methods fail only with ErrInvalidArgument, for an argument of
\* an unsupported type or a reserved property key; a Problem with no field
\* and no property fails with ErrInvalidOperation when its response is
\* requested, and no other Problem fails there.
C20_UnsetProblem ==
    /\ (made # <<>> /\ made[1].fn \in {"NewProblem", "&Problem{}"} /\ panicAt = "endpoint") =>
           ErrInvalidArgument \in panicv[1].chain
    /\ (val # <<>> /\ val[1].kind = "*Problem") =>
           IF ProblemUnset(val[1].v)
           THEN /\ ~Responded
                /\ panicAt # "" =>
                       /\ panicAt = "respond"
                       /\ panicv = <<WrapErr("invalid operation",
                                              "an uninitialised restapi.Problem was returned")>>
           ELSE panicAt # "respond"

C20_Witness ==
    /\ pc = "done"
    /\ val # <<>>
    /\ val[1].kind = "*Problem"
    /\ val[1].v = ZeroProblem
    /\ ops = <<>>
    /\ panicAt = "respond"
    /\ panicv[1].text = "invalid operation: an uninitialised restapi.Problem was returned"
    /\ rw.status = 500

----------------------------------------------------------------------------
\* the value of field f of a Problem as the documentation of the Problem
\* struct describes it (length 0 = the field is not set)
SetField(p, f) ==
    CASE f = "type" -> IF Len(p.Type) > 0 THEN <<StrVal(URLString(p.Type[1]))>> ELSE <<>>
      [] f = "title" -> IF p.Title # "" THEN <<StrVal(p.Title)>> ELSE <<>>
      [] f = "status" -> IF p.Status # 0 THEN <<IntVal(p.Status)>> ELSE <<>>
      [] f = "detail" -> IF p.Detail # "" THEN <<StrVal(p.Detail)>> ELSE <<>>
      [] f = "instance" -> IF Len(p.Instance) > 0 THEN <<StrVal(URLString(p.Instance[1]))>> ELSE <<>>

RespondedProblem ==
    Responded /\ val[1].kind = "*Problem" /\ Len(marshalled) > 0

----------------------------------------------------------------------------
\* the endpoint returned an error or an *Error and a Response was built for it
ReturnedError ==
    /\ val # <<>>
    /\ val[1].kind \in {"error", "*Error"}
    /\ panicAt = ""
    /\ pc \in {"write", "status", "body", "done"}

----------------------------------------------------------------------------
\* the endpoint panicked with an error wrapping ErrInvalidArgument
InvalidArgumentPanic == panicAt = "endpoint" /\ ErrInvalidArgument \in panicv[1].chain

\* C23: a call of NewError with an argument that is no error, int, string or
\* *http.Request panics with ErrInvalidArgument and yields no Error.
C23_UnsupportedArgPanics ==
    (MadeBy("NewError") /\ \E i \in 1..Len(made[1].args) : made[1].args[i].t = "other")
        => val = <<>> /\ InvalidArgumentPanic

----------------------------------------------------------------------------
\* the calls of Response.write so far: each begins by adding the Content-Type
WriteStarts == SelectSeq(wire, LAMBDA c : c.op = "Header.Add")

\* the WriteHeader calls that net/http accepts as the final status line
Commits ==
    SelectSeq(wire, LAMBDA c : /\ c.op = "WriteHeader"
                               /\ ~InvalidWriteHeaderCode(c.code)
                               /\ ~(c.code >= 100 /\ c.code <= 199 /\ c.code # 101))

\* C24: in one invocation a Response is built once for the returned value
\* (and once more only by the deferred function after a panic), each Response
\* is handed to write once, the status is committed exactly once by the time
\* the handler returns and never changes afterwards, and the body is written
\* at most once, whatever the endpoint returns and wherever a panic occurs.
C24_WrittenOnce ==
    /\ [](/\ Len(Writes(wire)) <= 1
          /\ Len(rw.body) <= 1
          /\ Len(Commits) <= 1
          /\ Len(WriteStarts) <= (IF recovering /\ panicAt = "write" THEN 2 ELSE 1)
          /\ pc = "done" => rw.status # 0 /\ Len(Writes(wire)) = 1)
    /\ [][/\ rw.status # 0 => rw'.status = rw.status /\ rw'.sent = rw.sent
          /\ (response # <<>> /\ response' # response) => pc = "recover"
          /\ pc = "done" => UNCHANGED vars]_vars

\* a panic in the middle of the first write, and still one commit and one body
C24_Witness ==
    /\ pc = "done"
    /\ panicAt = "write"
    /\ Len(WriteStarts) = 2
    /\ Len(Commits) = 1
    /\ rw.status = 500
    /\ Len(rw.body) = 1

----------------------------------------------------------------------------
\* C25: when two handlers run concurrently and both endpoints return the same
\* *Error, the response of each carries the path and query of its own
\* request, and the status and timestamp that the Error its endpoint
\* returned gives alone (its own, or 500 and the handler's own clock reading
\* where it has none).
C25_Independent ==
    \A h \in DOMAIN handlers :
        handlers[h].pc = "done" =>
            LET own == handlers[h]
                e == own.returned[1]
                p == own.projected[1]
            IN  /\ p.Path = own.rq.path
                /\ p.Query = own.rq.query
                /\ p.Status = coalesce(e.statusCode, 500)
                /\ own.status = coalesce(e.statusCode, 500)
                /\ p.Timestamp = coalesce(e.timeStamp, nowAt(h))

----------------------------------------------------------------------------
\* the endpoint holds or has returned a Result
HoldsResult == val # <<>> /\ val[1].kind = "*Result"

\* C26: a Result carries an explicit content type only together with bytes.
\* After any sequence of WithContent and WithValue calls the Result holds what
\* the last of them set (the value and no content type, or the bytes and
\* their content type), and the Response is produced accordingly: the value
\* is handed to the negotiated marshal function, the bytes are sent as they
\* are under their own content type with no marshal call.
C26_ContentInvariant ==
    HoldsResult =>
        LET r == val[1].v
            last == ContentCalls[Len(ContentCalls)]
        IN  /\ Len(r.contentType) > 0 => Len(r.content) = 1 /\ r.content[1].kind = "bytes"
            /\ (Len(ContentCalls) > 0 /\ last.op = "WithValue") =>
                   /\ r.contentType = <<>>
                   /\ r.content = <<last.value>>
                   /\ Responded =>
                          /\ Len(marshalled) > 0
                          /\ marshalled[1] = last.value
                          /\ response[1].ContentType \in {apirq[1].Accept, "plain/text"}
                          /\ response[1].ContentType = "plain/text" => logged # <<>>
            /\ (Len(ContentCalls) > 0 /\ last.op = "WithContent") =>
                   /\ r.contentType = <<last.ct>>
                   /\ r.content = <<Bytes(last.data)>>
                   /\ Responded =>
                          /\ marshalled = <<>>
                          /\ response[1].ContentType = last.ct
                          /\ response[1].Content = Bytes(last.data)

\* WithContent followed by WithValue: the value is marshalled, the bytes are gone
C26_Witness ==
    /\ Responded
    /\ HoldsResult
    /\ Len(ops) = 2
    /\ ops[1].op = "WithContent"
    /\ ops[2].op = "WithValue"
    /\ val[1].v.contentType = <<>>
    /\ marshalled = <<ops[2].value>>
    /\ logged = <<>>
    /\ response[1].ContentType = apirq[1].Accept

----------------------------------------------------------------------------
\* C27: the properties of a Problem that NewProblem and the With... methods
\* built hold none of the reserved keys, and in the body marshalled for it
\* every field that is set appears under its key with the field's own value.
C27_NoReservedProperty ==
    (val # <<>> /\ val[1].kind = "*Problem" /\ MadeBy("NewProblem")) =>
        /\ DOMAIN val[1].v.props \cap ReservedKeys = {}
        /\ RespondedProblem =>
               \A f \in ReservedKeys :
                   SetField(val[1].v, f) # <<>> =>
                       /\ f \in DOMAIN marshalled[1].entries
                       /\ marshalled[1].entries[f] = SetField(val[1].v, f)[1]

----------------------------------------------------------------------------
\* C28: a status code committed to the transport lies in 100..599, whatever
\* the endpoint returned.
C28_CommittedStatusValid ==
    rw.status # 0 => rw.status >= 100 /\ rw.status <= 599

----------------------------------------------------------------------------
\* a Response is at hand: built by makeResponse or by the deferred function
HasResponse == pc \in {"write", "status", "body", "done"} /\ response # <<>>

\* the negotiated marshal function returned an error for its i-th argument
Rejected(i) == ~CallMarshal(apirq[1].MarshalContent, marshalled[i]).ok

\* C29: the negotiated marshal function is called at most twice: once for the
\* intended body and, only if that call failed, once for the projection of
\* the 500 Error made from the failure. When the call for a projection fails
\* the Response is the plain-text 500 fallback, the failure is logged, and no
\* further marshal call is made.
C29_MarshalBound ==
    /\ Len(marshalled) <= 2
    /\ (HasResponse /\ Len(marshalled) = 2) =>
           /\ Rejected(1)
           /\ Len(logged) > 0
           /\ logged[1].Message \in {"error marshalling Result response",
                                      "error marshalling Problem response"}
    /\ (HasResponse /\ Len(marshalled) > 0 /\ Rejected(Len(marshalled))) =>
           /\ response[1].StatusCode = 500
           /\ response[1].ContentType = "plain/text"
           /\ response[1].Content.kind = "text"
           /\ \E i \in 1..Len(logged) : logged[i].Message = "error marshalling error response"
    /\ (HasResponse /\ response[1].ContentType = "plain/text") =>
           Len(marshalled) > 0 /\ Rejected(Len(marshalled))

\* the value and then the projection of the 500 Error were both rejected
C29_Witness ==
    /\ pc = "done"
    /\ panicAt = ""
    /\ Len(marshalled) = 2
    /\ Rejected(1)
    /\ Rejected(2)
    /\ marshalled[2] = CustomProjection(0)
    /\ rw.status = 500
    /\ Len(logged) = 2
    /\ Len(rw.body) = 1
    /\ rw.body[1].kind = "text"

----------------------------------------------------------------------------
\* C30: once the status is committed, the headers sent with it hold exactly
\* one Content-Type value, the ContentType of the Response being written.
C30_SingleContentType ==
    (rw.status # 0 /\ response # <<>>) =>
        /\ KeyContentType \in DOMAIN rw.sent
        /\ rw.sent[KeyContentType] = <<response[1].ContentType>>

====
